---- MODULE Spec2Model ----
\* Cerebrus: rule evaluation and comment-section reconciliation.
\*
\* A comment body is a sequence of tokens.  The markers, a newline and the
\* replacement patterns of String.prototype.replace are tokens of their own;
\* every other token is an opaque, non-blank piece of text.  The regular
\* expressions of the source (start marker, shortest run of any characters,
\* end marker; with or without the g flag; with or without trailing newlines)
\* are computed on tokens the way the JavaScript engine computes them on
\* characters: leftmost start marker, nearest end marker after it.
EXTENDS Integers, Sequences, FiniteSets, TLC

\* ------------------------------------------------------------------ bounds
\* Longest comment body a run may write, largest comment id, longest changed
\* file list, number of runs started on the PR.
MaxRuns == 3
MaxBodyLen == 36
MaxCommentId == 3
MaxFiles == 2
\* Longest existing body of a reconciliation taken alone.
MaxReconcileLen == 5

\* The concurrent runs (workflow jobs started by PR events).
Procs == {1, 2}

\* ------------------------------------------------------------------ tokens
CEREBRUS_IDENTIFIER == "<!-- Cerebrus PR report -->"
PATH_VALIDATION_SECTION_START == "<!-- Path Validation Section -->"
PATH_VALIDATION_SECTION_END == "<!-- End Path Validation Section -->"
CHANGENOTE_SECTION_START == "<!-- Change Note Section -->"
CHANGENOTE_SECTION_END == "<!-- End Change Note Section -->"
BUILD_SIZE_SECTION_START == "<!-- Build Size Section -->"
BUILD_SIZE_SECTION_END == "<!-- End Build Size Section -->"
NL == "\n"
DollarAmp == "$&"
DollarBefore == "$LEFT"
DollarAfter == "$RIGHT"
\* DollarAmp is the pattern dollar-ampersand (the match), DollarBefore is
\* dollar-backtick (the text before the match), DollarAfter is
\* dollar-apostrophe (the text after the match).

\* ------------------------------------------------------------------ strings
\* First index >= from at which tok occurs in s, 0 when there is none.
IndexFrom(s, tok, from) ==
  IF \E i \in from..Len(s) : s[i] = tok
  THEN CHOOSE i \in from..Len(s) :
         s[i] = tok /\ \A j \in from..(i - 1) : s[j] # tok
  ELSE 0

\* String.prototype.includes
includes(s, tok) == IndexFrom(s, tok, 1) # 0

\* Number of Newline tokens of s directly at position i and after.
RECURSIVE NewlineRun(_, _)
NewlineRun(s, i) ==
  IF i <= Len(s) /\ s[i] = NL THEN 1 + NewlineRun(s, i + 1) ELSE 0

\* The match of  start[\s\S]*?end  (followed by \n* when trailNL) in s at or
\* after position from: <<first, last>>, or <<0, 0>> when nothing matches.
regexExec(s, start, end, trailNL, from) ==
  LET i == IndexFrom(s, start, from) IN
  IF i = 0 THEN <<0, 0>>
  ELSE LET j == IndexFrom(s, end, i + 1) IN
       IF j = 0 THEN <<0, 0>>
       ELSE <<i, IF trailNL THEN j + NewlineRun(s, j + 1) ELSE j>>

\* RegExp.prototype.test on a fresh regular expression
regexTest(s, start, end) == regexExec(s, start, end, FALSE, 1)[1] # 0

\* GetSubstitution: the replacement string with its $-patterns expanded for
\* the match s[i..j].
RECURSIVE GetSubstitution(_, _, _, _)
GetSubstitution(repl, s, i, j) ==
  IF repl = <<>> THEN <<>>
  ELSE LET h == Head(repl)
           x == IF h = DollarAmp THEN SubSeq(s, i, j)
                ELSE IF h = DollarBefore THEN SubSeq(s, 1, i - 1)
                ELSE IF h = DollarAfter THEN SubSeq(s, j + 1, Len(s))
                ELSE <<h>>
       IN x \o GetSubstitution(Tail(repl), s, i, j)

\* String.prototype.replace(regex, replacementString), from position from on.
RECURSIVE replaceFrom(_, _, _, _, _, _, _)
replaceFrom(s, start, end, trailNL, global, repl, from) ==
  LET m == regexExec(s, start, end, trailNL, from) IN
  IF m[1] = 0 THEN SubSeq(s, from, Len(s))
  ELSE SubSeq(s, from, m[1] - 1) \o GetSubstitution(repl, s, m[1], m[2])
       \o (IF global
           THEN replaceFrom(s, start, end, trailNL, global, repl, m[2] + 1)
           ELSE SubSeq(s, m[2] + 1, Len(s)))

\* String.prototype.trim
RECURSIVE trimStart(_)
trimStart(s) == IF s # <<>> /\ Head(s) = NL THEN trimStart(Tail(s)) ELSE s
RECURSIVE trimEnd(_)
trimEnd(s) ==
  IF s # <<>> /\ s[Len(s)] = NL THEN trimEnd(SubSeq(s, 1, Len(s) - 1)) ELSE s
trim(s) == trimEnd(trimStart(s))

\* Array.prototype.join
RECURSIVE join(_, _)
join(parts, sep) ==
  IF parts = <<>> THEN <<>>
  ELSE IF Len(parts) = 1 THEN parts[1]
  ELSE parts[1] \o sep \o join(Tail(parts), sep)

\* ------------------------------------------------------------------ rule set
\* rules.js: four rules, evaluated in list order.
NRules == 4
RuleIds == 1..NRules
Branches == {"tiddlywiki-com", "master", "feature"}
EditionsFiles == {"editions/file1.txt"}
LicensesFiles == {"licenses/cla-individual.md"}
ProtectedFiles == {"/readme.md", "/bin/readme.md", "contributing.md", "license"}
OtherFiles == {"other-folder/file2.txt"}
Files == EditionsFiles \cup LicensesFiles \cup ProtectedFiles \cup OtherFiles
FileLists == UNION {[1..n -> Files] : n \in 0..MaxFiles}
\* The changed-file lists of the runs that write to the PR.
RunFileLists == {<<>>, <<"editions/file1.txt">>, <<"other-folder/file2.txt">>}

\* file.startsWith(prefix), for the two prefixes the rules use
startsWith(file, prefix) ==
  \/ prefix = "editions/" /\ file \in EditionsFiles
  \/ prefix = "licenses/" /\ file \in LicensesFiles

\* Array.prototype.every / some over the changed files
everyStartsWith(changedFiles, prefix) ==
  \A i \in 1..Len(changedFiles) : startsWith(changedFiles[i], prefix)
someStartsWith(changedFiles, prefix) ==
  \E i \in 1..Len(changedFiles) : startsWith(changedFiles[i], prefix)

\* Conditions as they would be with one test left out or added, rule by rule:
\* rules 1 and 2 without the test of the branch,
conditionAnyBranch(id, baseRef, changedFiles) ==
  CASE id = 1 -> /\ ~everyStartsWith(changedFiles, "editions/")
                 /\ ~(Len(changedFiles) = 1
                      /\ startsWith(changedFiles[1], "licenses/"))
    [] id = 2 -> everyStartsWith(changedFiles, "editions/")
    [] id = 3 -> \/ baseRef # "tiddlywiki-com"
                 \/ /\ someStartsWith(changedFiles, "licenses/")
                    /\ Len(changedFiles) > 1
    [] id = 4 -> \E i \in 1..Len(changedFiles) : changedFiles[i] \in ProtectedFiles
\* rule 3 without the test of the number of files,
conditionLicensesAlone(id, baseRef, changedFiles) ==
  CASE id = 1 -> /\ baseRef = "tiddlywiki-com"
                 /\ ~everyStartsWith(changedFiles, "editions/")
                 /\ ~(Len(changedFiles) = 1
                      /\ startsWith(changedFiles[1], "licenses/"))
    [] id = 2 -> baseRef = "master" /\ everyStartsWith(changedFiles, "editions/")
    [] id = 3 -> \/ baseRef # "tiddlywiki-com"
                 \/ someStartsWith(changedFiles, "licenses/")
    [] id = 4 -> \E i \in 1..Len(changedFiles) : changedFiles[i] \in ProtectedFiles
\* rule 1 without the exemption of the single file under licenses/,
conditionNoExemption(id, baseRef, changedFiles) ==
  CASE id = 1 -> /\ baseRef = "tiddlywiki-com"
                 /\ ~everyStartsWith(changedFiles, "editions/")
    [] id = 2 -> baseRef = "master" /\ everyStartsWith(changedFiles, "editions/")
    [] id = 3 -> \/ baseRef # "tiddlywiki-com"
                 \/ /\ someStartsWith(changedFiles, "licenses/")
                    /\ Len(changedFiles) > 1
    [] id = 4 -> \E i \in 1..Len(changedFiles) : changedFiles[i] \in ProtectedFiles
\* rule 4 with a test of the branch.
conditionProtectedOnBranch(id, baseRef, changedFiles) ==
  CASE id = 1 -> /\ baseRef = "tiddlywiki-com"
                 /\ ~everyStartsWith(changedFiles, "editions/")
                 /\ ~(Len(changedFiles) = 1
                      /\ startsWith(changedFiles[1], "licenses/"))
    [] id = 2 -> baseRef = "master" /\ everyStartsWith(changedFiles, "editions/")
    [] id = 3 -> \/ baseRef # "tiddlywiki-com"
                 \/ /\ someStartsWith(changedFiles, "licenses/")
                    /\ Len(changedFiles) > 1
    [] id = 4 -> /\ baseRef = "tiddlywiki-com"
                 /\ \E i \in 1..Len(changedFiles) : changedFiles[i] \in ProtectedFiles

\* rule.condition(baseRef, changedFiles) of the rule with the given id
condition(id, baseRef, changedFiles) ==
  CASE id = 1 -> /\ baseRef = "tiddlywiki-com"
                 /\ ~everyStartsWith(changedFiles, "editions/")
                 /\ ~(Len(changedFiles) = 1
                      /\ startsWith(changedFiles[1], "licenses/"))
    [] id = 2 -> baseRef = "master" /\ everyStartsWith(changedFiles, "editions/")
    [] id = 3 -> \/ baseRef # "tiddlywiki-com"
                 \/ /\ someStartsWith(changedFiles, "licenses/")
                    /\ Len(changedFiles) > 1
    [] id = 4 -> \E i \in 1..Len(changedFiles) : changedFiles[i] \in ProtectedFiles

\* rule.message of the rule with the given id
RuleMessage(id) ==
  CASE id = 1 -> "rule1-message" [] id = 2 -> "rule2-message"
    [] id = 3 -> "rule3-message" [] id = 4 -> "rule4-message"

\* The stopProcessing flags a rules.js can carry, and those the runs are
\* checked with: no rule stops, or rule 3 stops.
AllStopConfigs == [RuleIds -> BOOLEAN]
StopConfigs == {[i \in RuleIds |-> FALSE], [i \in RuleIds |-> i = 3]}

\* ------------------------------------------------------------------ evaluation
\* The loop without its break: a matched stopProcessing rule sets abort and
\* the later rules are evaluated all the same.
RECURSIVE processRulesNoBreak(_, _, _, _, _)
processRulesNoBreak(i, baseRef, changedFiles, stop, acc) ==
  IF i > NRules THEN acc
  ELSE LET matched == condition(i, baseRef, changedFiles)
           next == [messages |-> IF matched
                                 THEN Append(acc.messages, <<NL, NL, RuleMessage(i)>>)
                                 ELSE acc.messages,
                    matchedIds |-> IF matched THEN Append(acc.matchedIds, i)
                                   ELSE acc.matchedIds,
                    evaluated |-> acc.evaluated \cup {i},
                    abort |-> acc.abort \/ (matched /\ stop[i])]
       IN processRulesNoBreak(i + 1, baseRef, changedFiles, stop, next)

\* processRule and the loop over the rules of applyRules: the messages
\* pushed, the abort flag and the rules whose condition was evaluated.
RECURSIVE processRules(_, _, _, _, _)
processRules(i, baseRef, changedFiles, stop, acc) ==
  IF i > NRules THEN acc
  ELSE LET matched == condition(i, baseRef, changedFiles)
           next == [messages |-> IF matched
                                 THEN Append(acc.messages, <<NL, NL, RuleMessage(i)>>)
                                 ELSE acc.messages,
                    matchedIds |-> IF matched THEN Append(acc.matchedIds, i)
                                   ELSE acc.matchedIds,
                    evaluated |-> acc.evaluated \cup {i},
                    abort |-> matched /\ stop[i]]
       IN IF next.abort THEN next
          ELSE processRules(i + 1, baseRef, changedFiles, stop, next)

evaluateRules(baseRef, changedFiles, stop) ==
  processRules(1, baseRef, changedFiles, stop,
               [messages |-> <<>>, matchedIds |-> <<>>, evaluated |-> {},
                abort |-> FALSE])

\* ------------------------------------------------------------------ sections
\* validate-rules: `${START}\n${messages.join("\n")}\n${END}`
pathSection(messages) ==
  <<PATH_VALIDATION_SECTION_START, NL>> \o join(messages, <<NL>>)
    \o <<NL, PATH_VALIDATION_SECTION_END>>

\* validate-changenotes: `${START}\n\n${commentBody}\n\n${END}`
changeNoteSection(commentBody) ==
  <<CHANGENOTE_SECTION_START, NL, NL>> \o commentBody
    \o <<NL, NL, CHANGENOTE_SECTION_END>>

\* build-size-report: `${START}\n\n${message}\n${END}`
buildSizeSection(message) ==
  <<BUILD_SIZE_SECTION_START, NL, NL>> \o message \o <<NL, BUILD_SIZE_SECTION_END>>

\* `${CEREBRUS_IDENTIFIER}\n\n${section}`
fullComment(section) == <<CEREBRUS_IDENTIFIER, NL, NL>> \o section

\* Replace as soon as the start marker is in the body, complete span or not.
replaceOrAppendOnStartMarker(existingBody, newSection, start, end, global) ==
  IF includes(existingBody, start)
  THEN replaceFrom(existingBody, start, end, FALSE, global, newSection, 1)
  ELSE existingBody \o <<NL, NL>> \o newSection

\* if (sectionRegex.test(existingBody)) replace else append
replaceOrAppend(existingBody, newSection, start, end, global) ==
  IF regexTest(existingBody, start, end)
  THEN replaceFrom(existingBody, start, end, FALSE, global, newSection, 1)
  ELSE existingBody \o <<NL, NL>> \o newSection

\* replaceOrAppendSection of validate-rules (path section, g flag)
replaceOrAppendSectionPath(existingBody, newSection) ==
  replaceOrAppend(existingBody, newSection, PATH_VALIDATION_SECTION_START,
                  PATH_VALIDATION_SECTION_END, TRUE)

\* replaceOrAppendSection of validate-changenotes (change note section, g flag)
replaceOrAppendSectionChangeNote(existingBody, newSection) ==
  replaceOrAppend(existingBody, newSection, CHANGENOTE_SECTION_START,
                  CHANGENOTE_SECTION_END, TRUE)

\* replaceOrAppendSection of build-size-report (build size section, no g flag)
replaceOrAppendSectionBuildSize(existingBody, newSection) ==
  replaceOrAppend(existingBody, newSection, BUILD_SIZE_SECTION_START,
                  BUILD_SIZE_SECTION_END, FALSE)

\* removeSection: existingBody.replace(/START[\s\S]*?END\n*/g, '').trim()
removeSection(existingBody, sectionStart, sectionEnd) ==
  trim(replaceFrom(existingBody, sectionStart, sectionEnd, TRUE, TRUE, <<>>, 1))

\* ------------------------------------------------------------------ reports
\* Text a pull request controls and the change-note report repeats: a field
\* value or description that is plain, that holds the text of the path
\* section's start marker, or that holds a replacement pattern.
UserTexts == {<<"text">>, <<PATH_VALIDATION_SECTION_START>>, <<DollarAmp>>}

\* commentBody and validationPassed of validateChangeNotes, by branch taken
generateMissingChangeNoteComment == <<"changenote-missing">>
generateSuccessComment(summaries) == <<"changenote-success">> \o summaries
ChangeNoteReports ==
  {[commentBody |-> generateMissingChangeNoteComment, validationPassed |-> FALSE]}
  \cup {[commentBody |-> generateSuccessComment(u), validationPassed |-> TRUE] :
          u \in UserTexts}

\* 20 * 1024 bytes
SignificantDiff == 20480
\* pr_size and base_size inputs of the runs
PrSizes == {1024, 30720}
BaseSizes == {1024}

\* generateMarkdown whose limits count as significant.
generateMarkdownInclusive(prSize, baseSize) ==
  LET diff == prSize - baseSize
      direction == IF diff > 0 THEN "Increase"
                   ELSE IF diff < 0 THEN "Decrease" ELSE "No change"
      badge == IF diff >= SignificantDiff THEN <<"Significant Increase">>
               ELSE IF diff <= -SignificantDiff THEN <<"Significant Decrease">>
               ELSE <<>>
  IN <<direction>> \o badge \o <<NL>>

\* generateMarkdown of build-size-report: direction, then badge and alert
generateMarkdown(prSize, baseSize) ==
  LET diff == prSize - baseSize
      direction == IF diff > 0 THEN "Increase"
                   ELSE IF diff < 0 THEN "Decrease" ELSE "No change"
      badge == IF diff > SignificantDiff THEN <<"Significant Increase">>
               ELSE IF diff < -SignificantDiff THEN <<"Significant Decrease">>
               ELSE <<>>
  IN <<direction>> \o badge \o <<NL>>

\* ------------------------------------------------------------------ state
VARIABLES
  comments,        \* the PR's comments, oldest first: [id, body, by]
  nextId,          \* id the next created comment gets
  pc,              \* per run: "idle", "write", "done"
  run,             \* per run: what it computed and read, what it did
  stopProcessing,  \* the stopProcessing flag of each rule of rules.js
  runs,            \* number of runs started so far
  overlapped,      \* a run has started while another had not ended
  lastEval,        \* inputs and result of the latest rule evaluation
  lastReconcile,   \* inputs and result of the latest section reconciliation
  lastNotes,       \* inputs and result of the latest change note validation
  lastSize         \* inputs and result of the latest build size report

vars == <<comments, nextId, pc, run, stopProcessing, runs, overlapped, lastEval,
          lastReconcile, lastNotes, lastSize>>

NoComment == [id |-> 0, body |-> <<>>]
NoRun == [mode |-> "none", dryRun |-> FALSE, matchedIds |-> <<>>, abort |-> FALSE,
          section |-> <<>>, existing |-> NoComment, stale |-> FALSE,
          wrote |-> FALSE, deleted |-> FALSE, threw |-> FALSE,
          dispatched |-> FALSE]
NoReconcile == [op |-> "none"]
NoNotes == [op |-> "none"]
NoSize == [op |-> "none"]
NoEval == [baseRef |-> "none", changedFiles |-> <<>>,
           result |-> [messages |-> <<>>, matchedIds |-> <<>>, evaluated |-> {},
                       abort |-> FALSE]]

\* ------------------------------------------------------------------ PR comments
\* PRCommentUtils.getExistingComment: the first comment whose body includes
\* the identifier, or nothing.
getExistingComment(cs, identifier) ==
  IF \E i \in 1..Len(cs) : includes(cs[i].body, identifier)
  THEN LET i == CHOOSE i \in 1..Len(cs) :
                  /\ includes(cs[i].body, identifier)
                  /\ \A j \in 1..(i - 1) : ~includes(cs[j].body, identifier)
       IN [id |-> cs[i].id, body |-> cs[i].body]
  ELSE NoComment

\* PRCommentUtils.updateComment: the comment with that id gets the body
updateComment(cs, id, body, p) ==
  [i \in 1..Len(cs) |->
     IF cs[i].id = id THEN [id |-> id, body |-> body, by |-> p] ELSE cs[i]]

\* PRCommentUtils.postComment: a new comment, after the others
postComment(cs, id, body, p) == Append(cs, [id |-> id, body |-> body, by |-> p])

\* PRCommentUtils.deleteComment
deleteComment(cs, id) == SelectSeq(cs, LAMBDA c : c.id # id)

Init ==
  /\ comments = <<>>
  /\ nextId = 1
  /\ pc = [p \in Procs |-> "idle"]
  /\ run = [p \in Procs |-> NoRun]
  /\ stopProcessing \in StopConfigs
  /\ runs = 0
  /\ overlapped = FALSE
  /\ lastEval = NoEval
  /\ lastReconcile = NoReconcile
  /\ lastNotes = NoNotes
  /\ lastSize = NoSize

\* ------------------------------------------------------------------ runs
\* The messages array of a run from the ids of its matched rules.
messagesOf(matchedIds) ==
  [j \in 1..Len(matchedIds) |-> <<NL, NL, RuleMessage(matchedIds[j])>>]

\* if (messages.length): the abort flag ignored
shouldPostIgnoringAbort(r) == r.matchedIds # <<>>

\* if (messages.length && !abort)
shouldPost(r) == r.matchedIds # <<>> /\ ~r.abort

\* The body a run sends, computed from the comment it read.
\* validate-rules: replace or append the path section, or remove it.
rulesBody(r) ==
  IF shouldPost(r)
  THEN IF r.existing.id # 0
       THEN replaceOrAppendSectionPath(r.existing.body, r.section)
       ELSE fullComment(r.section)
  ELSE removeSection(r.existing.body, PATH_VALIDATION_SECTION_START,
                     PATH_VALIDATION_SECTION_END)

\* A run of validate-rules that always sends a body to the PR.
rulesWritesAlways(r) == TRUE

\* validate-rules: whether the run sends a request to the PR at all
rulesWrites(r) ==
  \/ shouldPost(r)
  \/ r.existing.id # 0 /\ rulesBody(r) # r.existing.body

\* validate-changenotes: replace or append the change note section
changeNotesBody(r) ==
  IF r.existing.id # 0
  THEN replaceOrAppendSectionChangeNote(r.existing.body, r.section)
  ELSE fullComment(r.section)

\* build-size-report: replace or append the build size section
sizeBody(r) ==
  IF r.existing.id # 0
  THEN replaceOrAppendSectionBuildSize(r.existing.body, r.section)
  ELSE fullComment(r.section)

\* The comment body computed from the comment as it is when the run writes.
bodyToWriteFresh(p) ==
  LET r == [run[p] EXCEPT !.existing = getExistingComment(comments,
                                         CEREBRUS_IDENTIFIER)]
  IN CASE r.mode = "rules" -> rulesBody(r)
       [] r.mode = "changenotes" -> changeNotesBody(r)
       [] r.mode = "size:comment" -> sizeBody(r)

\* The comment body run p sends: computed from the body the run read.
bodyToWrite(p) ==
  CASE run[p].mode = "rules" -> rulesBody(run[p])
    [] run[p].mode = "changenotes" -> changeNotesBody(run[p])
    [] run[p].mode = "size:comment" -> sizeBody(run[p])

\* postComment(body) whether or not a comment was found
updateOrPostAlwaysPost(cs, existing, id, body, p) == postComment(cs, id, body, p)

\* if (existing) updateComment(existing.id, body) else postComment(body)
updateOrPost(cs, existing, id, body, p) ==
  IF existing.id # 0 THEN updateComment(cs, existing.id, body, p)
  ELSE postComment(cs, id, body, p)

\* await utils.updateComment(...) or await utils.postComment(...): the write of
\* run p reaches the PR.  A run that read the same comment and has not
\* written yet now holds a body that is no longer the comment's.
Commit(p) ==
  /\ Len(bodyToWrite(p)) <= MaxBodyLen
  /\ nextId <= MaxCommentId
  /\ comments' = updateOrPost(comments, run[p].existing, nextId, bodyToWrite(p), p)
  /\ nextId' = IF Len(comments') > Len(comments) THEN nextId + 1 ELSE nextId
  /\ run' = [q \in Procs |->
              IF q = p THEN [run[p] EXCEPT !.wrote = TRUE]
              ELSE IF /\ pc[q] = "write"
                      /\ run[p].existing.id # 0
                      /\ run[q].existing.id = run[p].existing.id
                   THEN [run[q] EXCEPT !.stale = TRUE]
                   ELSE run[q]]
  /\ pc' = [pc EXCEPT ![p] = "done"]

\* The run ends without a request to the PR.
NoCommit(p) ==
  /\ pc' = [pc EXCEPT ![p] = "done"]
  /\ UNCHANGED <<comments, nextId, run>>

\* A run starts, in the first free slot: one more run, overlapping if another
\* has not ended.
Start(p) ==
  /\ pc[p] = "idle"
  /\ \A q \in Procs : q < p => pc[q] # "idle"
  /\ runs < MaxRuns
  /\ runs' = runs + 1
  /\ overlapped' = (overlapped \/ \E q \in Procs \ {p} : pc[q] # "idle")

\* applyRules of validate-rules up to and including
\* `await utils.getExistingComment(...)`; in a dry run, the whole handler.
RulesRead(p) ==
  /\ Start(p)
  /\ \E baseRef \in Branches, changedFiles \in RunFileLists, dryRun \in BOOLEAN :
       LET res == evaluateRules(baseRef, changedFiles, stopProcessing)
           r == [NoRun EXCEPT !.mode = "rules", !.dryRun = dryRun,
                              !.matchedIds = res.matchedIds, !.abort = res.abort]
       IN /\ run' = [run EXCEPT ![p] =
                      IF dryRun THEN r
                      ELSE [r EXCEPT !.section = IF shouldPost(r)
                                                 THEN pathSection(res.messages)
                                                 ELSE <<>>,
                                     !.existing = getExistingComment(comments,
                                                    CEREBRUS_IDENTIFIER)]]
          /\ pc' = [pc EXCEPT ![p] = IF dryRun THEN "done" ELSE "write"]
  /\ UNCHANGED <<comments, nextId, stopProcessing, lastEval, lastReconcile, lastNotes, lastSize>>

\* applyRules of validate-rules after the read: update, create, strip or nothing
RulesWrite(p) ==
  /\ pc[p] = "write" /\ run[p].mode = "rules"
  /\ IF rulesWrites(run[p]) THEN Commit(p) ELSE NoCommit(p)
  /\ UNCHANGED <<stopProcessing, runs, overlapped, lastEval, lastReconcile, lastNotes, lastSize>>

\* validateChangeNotes of validate-changenotes up to and including
\* `await utils.getExistingComment(...)`; in a dry run, the whole handler.
ChangeNotesRead(p) ==
  /\ Start(p)
  /\ \E report \in ChangeNoteReports, dryRun \in BOOLEAN :
       LET r == [NoRun EXCEPT !.mode = "changenotes", !.dryRun = dryRun,
                              !.threw = dryRun /\ ~report.validationPassed]
       IN /\ run' = [run EXCEPT ![p] =
                      IF dryRun THEN r
                      ELSE [r EXCEPT !.section = changeNoteSection(report.commentBody),
                                     !.threw = ~report.validationPassed,
                                     !.existing = getExistingComment(comments,
                                                    CEREBRUS_IDENTIFIER)]]
          /\ pc' = [pc EXCEPT ![p] = IF dryRun THEN "done" ELSE "write"]
  /\ UNCHANGED <<comments, nextId, stopProcessing, lastEval, lastReconcile, lastNotes, lastSize>>

\* validateChangeNotes after the read: update or create; the handler then
\* throws if the validation did not pass
ChangeNotesWrite(p) ==
  /\ pc[p] = "write" /\ run[p].mode = "changenotes"
  /\ Commit(p)
  /\ UNCHANGED <<stopProcessing, runs, overlapped, lastEval, lastReconcile, lastNotes, lastSize>>

\* commentSize of build-size-report up to and including
\* `await utils.getExistingComment(...)`; in a dry run, the whole handler.
SizeRead(p) ==
  /\ Start(p)
  /\ \E prSize \in PrSizes, baseSize \in BaseSizes, dryRun \in BOOLEAN :
       LET r == [NoRun EXCEPT !.mode = "size:comment", !.dryRun = dryRun]
       IN /\ run' = [run EXCEPT ![p] =
                      IF dryRun THEN r
                      ELSE [r EXCEPT !.section = buildSizeSection(
                                                   generateMarkdown(prSize, baseSize)),
                                     !.existing = getExistingComment(comments,
                                                    CEREBRUS_IDENTIFIER)]]
          /\ pc' = [pc EXCEPT ![p] = IF dryRun THEN "done" ELSE "write"]
  /\ UNCHANGED <<comments, nextId, stopProcessing, lastEval, lastReconcile, lastNotes, lastSize>>

\* commentSize after the read: update or create
SizeWrite(p) ==
  /\ pc[p] = "write" /\ run[p].mode = "size:comment"
  /\ Commit(p)
  /\ UNCHANGED <<stopProcessing, runs, overlapped, lastEval, lastReconcile, lastNotes, lastSize>>

\* The handler that dispatches the event in a dry run as well.
dispatchesAlways(dryRun) == TRUE

\* calculateAndDispatch: if (dryRun) log the payload, else dispatchEvent
dispatches(dryRun) == ~dryRun

\* calculateAndDispatch of build-size-dispatch, the whole handler; after a
\* dry run, run() calls the size:comment handler with dryRun, which logs.
SizeCalc(p) ==
  /\ Start(p)
  /\ \E dryRun \in BOOLEAN :
       run' = [run EXCEPT ![p] = [NoRun EXCEPT !.mode = "size:calc",
                                               !.dryRun = dryRun,
                                               !.dispatched = dispatches(dryRun)]]
  /\ pc' = [pc EXCEPT ![p] = "done"]
  /\ UNCHANGED <<comments, nextId, stopProcessing, lastEval, lastReconcile, lastNotes, lastSize>>

\* The process of the run exits; the next PR event starts a new one.
Finish(p) ==
  /\ pc[p] = "done"
  /\ pc' = [pc EXCEPT ![p] = "idle"]
  /\ run' = [run EXCEPT ![p] = NoRun]
  /\ UNCHANGED <<comments, nextId, stopProcessing, runs, overlapped, lastEval, lastReconcile, lastNotes, lastSize>>

Step(p) ==
  \/ RulesRead(p) \/ RulesWrite(p)
  \/ ChangeNotesRead(p) \/ ChangeNotesWrite(p)
  \/ SizeRead(p) \/ SizeWrite(p)
  \/ SizeCalc(p)
  \/ Finish(p)

\* Runs started by PR events, interleaved at their awaits.
Next == \E p \in Procs : Step(p)
Spec == Init /\ [][Next]_vars

\* Runs executed one at a time (the steps of one workflow job).
SeqNext == Step(1)
SeqSpec == Init /\ [][SeqNext]_vars

\* ------------------------------------------------------------------ earlier applyRules
\* applyRules as the file validate-rules.js holds it: evaluate, look the
\* comment up; in a dry run, the whole handler.
LegacyRulesRead(p) ==
  /\ Start(p)
  /\ \E baseRef \in Branches, changedFiles \in RunFileLists, dryRun \in BOOLEAN :
       LET res == evaluateRules(baseRef, changedFiles, stopProcessing)
           r == [NoRun EXCEPT !.mode = "rules-legacy", !.dryRun = dryRun,
                              !.matchedIds = res.matchedIds, !.abort = res.abort]
       IN /\ run' = [run EXCEPT ![p] =
                      IF dryRun THEN r
                      ELSE [r EXCEPT !.section =
                                       IF shouldPost(r)
                                       THEN join(<<<<CEREBRUS_IDENTIFIER>>>>
                                                   \o res.messages, <<NL>>)
                                       ELSE <<>>,
                                     !.existing = getExistingComment(comments,
                                                    CEREBRUS_IDENTIFIER)]]
          /\ pc' = [pc EXCEPT ![p] = IF dryRun THEN "done" ELSE "write"]
  /\ UNCHANGED <<comments, nextId, stopProcessing, lastEval, lastReconcile, lastNotes, lastSize>>

\* applyRules of validate-rules.js after the look-up: delete the comment if
\* one exists, then post the messages if there are any and no rule aborted.
LegacyRulesWrite(p) ==
  /\ pc[p] = "write" /\ run[p].mode = "rules-legacy"
  /\ LET r == run[p]
         kept == IF r.existing.id # 0 THEN deleteComment(comments, r.existing.id)
                 ELSE comments
     IN /\ shouldPost(r) => nextId <= MaxCommentId
        /\ comments' = IF shouldPost(r) THEN postComment(kept, nextId, r.section, p)
                       ELSE kept
        /\ nextId' = IF shouldPost(r) THEN nextId + 1 ELSE nextId
        /\ run' = [run EXCEPT ![p] = [r EXCEPT !.deleted = r.existing.id # 0,
                                               !.wrote = shouldPost(r)]]
  /\ pc' = [pc EXCEPT ![p] = "done"]
  /\ UNCHANGED <<stopProcessing, runs, overlapped, lastEval, lastReconcile, lastNotes, lastSize>>

\* The handlers of validate-rules.js and validate-changenotes, one at a time.
LegacyNext ==
  \/ LegacyRulesRead(1) \/ LegacyRulesWrite(1)
  \/ ChangeNotesRead(1) \/ ChangeNotesWrite(1)
  \/ SizeRead(1) \/ SizeWrite(1)
  \/ Finish(1)
LegacySpec == Init /\ [][LegacyNext]_vars

\* ------------------------------------------------------------------ evaluation alone
\* The rule evaluation on every base branch and changed-file list.
EvaluateRules ==
  /\ lastEval = NoEval
  /\ \E baseRef \in Branches, changedFiles \in FileLists :
       lastEval' = [baseRef |-> baseRef, changedFiles |-> changedFiles,
                    result |-> evaluateRules(baseRef, changedFiles, stopProcessing)]
  /\ UNCHANGED <<comments, nextId, pc, run, stopProcessing, runs, overlapped,
                 lastReconcile, lastNotes, lastSize>>
RuleInit ==
  /\ comments = <<>>
  /\ nextId = 1
  /\ pc = [p \in Procs |-> "idle"]
  /\ run = [p \in Procs |-> NoRun]
  /\ stopProcessing \in AllStopConfigs
  /\ runs = 0
  /\ overlapped = FALSE
  /\ lastEval = NoEval
  /\ lastReconcile = NoReconcile
  /\ lastNotes = NoNotes
  /\ lastSize = NoSize
RuleSpec == RuleInit /\ [][EvaluateRules]_vars
\* ------------------------------------------------------------------ reconciliation alone
\* The three reconcilers by the section they own, and the markers of each.
Kinds == {"path", "changenote", "size"}
markersOf(kind) ==
  CASE kind = "path" ->
         <<PATH_VALIDATION_SECTION_START, PATH_VALIDATION_SECTION_END>>
    [] kind = "changenote" -> <<CHANGENOTE_SECTION_START, CHANGENOTE_SECTION_END>>
    [] kind = "size" -> <<BUILD_SIZE_SECTION_START, BUILD_SIZE_SECTION_END>>

\* replaceOrAppendSection of the validator that owns the section
replaceOrAppendSection(kind, existingBody, newSection) ==
  CASE kind = "path" -> replaceOrAppendSectionPath(existingBody, newSection)
    [] kind = "changenote" -> replaceOrAppendSectionChangeNote(existingBody, newSection)
    [] kind = "size" -> replaceOrAppendSectionBuildSize(existingBody, newSection)

\* The existing bodies: every text of up to MaxReconcileLen pieces made of the
\* section's markers, newlines and other text.
ExistingBodies(kind) ==
  UNION {[1..n -> {markersOf(kind)[1], markersOf(kind)[2], NL, "text"}] :
           n \in 0..MaxReconcileLen}

\* The new sections handed to a reconciler: one of plain content and, for the
\* change note section, one whose content holds a replacement pattern.
NewSections(kind) ==
  CASE kind = "path" -> {pathSection(messagesOf(<<1>>))}
    [] kind = "changenote" ->
         {changeNoteSection(generateMissingChangeNoteComment),
          changeNoteSection(generateSuccessComment(<<DollarAmp>>))}
    [] kind = "size" ->
         {buildSizeSection(generateMarkdown(30720, 1024))}

\* A reconciliation not yet applied: the owner of the section, the existing
\* body and the new section.
ReconcileInputs ==
  UNION {[op : {"pending"}, kind : {kind}, existingBody : ExistingBodies(kind),
          newSection : NewSections(kind), result : {<<>>}] : kind \in Kinds}

\* replaceOrAppendSection applied to the pending body and section
ApplyReplaceOrAppendSection ==
  /\ lastReconcile.op = "pending"
  /\ lastReconcile' =
       [lastReconcile EXCEPT
          !.op = "replaceOrAppendSection",
          !.result = replaceOrAppendSection(lastReconcile.kind,
                       lastReconcile.existingBody, lastReconcile.newSection)]
  /\ UNCHANGED <<comments, nextId, pc, run, stopProcessing, runs, overlapped,
                 lastEval, lastNotes, lastSize>>

\* removeSection applied to the pending body
ApplyRemoveSection ==
  /\ lastReconcile.op = "pending"
  /\ lastReconcile' =
       [lastReconcile EXCEPT
          !.op = "removeSection",
          !.newSection = <<>>,
          !.result = removeSection(lastReconcile.existingBody,
                       markersOf(lastReconcile.kind)[1],
                       markersOf(lastReconcile.kind)[2])]
  /\ UNCHANGED <<comments, nextId, pc, run, stopProcessing, runs, overlapped,
                 lastEval, lastNotes, lastSize>>

ReconcileInit ==
  /\ comments = <<>>
  /\ nextId = 1
  /\ pc = [p \in Procs |-> "idle"]
  /\ run = [p \in Procs |-> NoRun]
  /\ stopProcessing = [i \in RuleIds |-> FALSE]
  /\ runs = 0
  /\ overlapped = FALSE
  /\ lastEval = NoEval
  /\ lastReconcile \in ReconcileInputs
  /\ lastNotes = NoNotes
  /\ lastSize = NoSize
ReconcileNext == ApplyReplaceOrAppendSection \/ ApplyRemoveSection
ReconcileSpec == ReconcileInit /\ [][ReconcileNext]_vars

\* ------------------------------------------------------------------ changed file paths
\* A path is its directories, the base name of the file and its extension.
Path(dirs, base, ext) == [dirs |-> dirs, base |-> base, ext |-> ext]
CoreJs == Path(<<"core">>, "boot", ".js")
ReadmeMd == Path(<<>>, "README", ".md")
EditionTid == Path(<<"editions", "tw5.com", "tiddlers">>, "foo", ".tid")
NoteTid(base) ==
  Path(<<"editions", "tw5.com", "tiddlers", "releasenotes", "5.4.0">>, base, ".tid")
ChangedPaths ==
  {CoreJs, ReadmeMd, EditionTid, NoteTid("n1"),
   Path(<<>>, "LICENSE", ""),
   Path(<<".github", "workflows">>, "ci", ".yml"),
   Path(<<"editions", "tw5.com">>, "tiddlywiki", ".info"),
   Path(<<"editions", "test", "tiddlers", "modules">>, "x", ".tid"),
   Path(<<"editions", "fr-docs", "tiddlers", "core">>, "x", ".tid")}

\* The path starts with the directory: /^dir\//
startsWithDir(file, dir) == file.dirs # <<>> /\ file.dirs[1] = dir
\* The path holds /dir/ for one of the names: a directory that is not the first
hasInnerDir(file, names) == \E i \in 2..Len(file.dirs) : file.dirs[i] \in names

\* CONFIG.skipPatterns[i].test(file)
NSkipPatterns == 12
skipPatternTest(i, file) ==
  CASE i = 1 -> startsWithDir(file, ".github")
    [] i = 2 -> startsWithDir(file, ".vscode")
    [] i = 3 -> file.dirs = <<>> /\ file.base = ".editorconfig" /\ file.ext = ""
    [] i = 4 -> file.dirs = <<>> /\ file.base = ".gitignore" /\ file.ext = ""
    [] i = 5 -> file.dirs = <<>> /\ file.base = "LICENSE" /\ file.ext = ""
    [] i = 6 -> file.ext = ".md"
    [] i = 7 -> startsWithDir(file, "bin") /\ file.ext = ".md"
    [] i = 8 -> startsWithDir(file, "playwright-report")
    [] i = 9 -> startsWithDir(file, "test-results")
    [] i = 10 -> startsWithDir(file, "editions") /\ hasInnerDir(file, {"fr-docs", "dev-doc"})
    [] i = 11 -> startsWithDir(file, "community")
    [] i = 12 -> hasInnerDir(file, {"releasenotes"})

\* CONFIG.skipPatterns.some(pattern => pattern.test(file))
matchesSkipPattern(file) == \E i \in 1..NSkipPatterns : skipPatternTest(i, file)

\* /^editions\/.*\/tiddlers\/.*\.tid$/.test(file)
isEditionsTiddler(file) ==
  /\ startsWithDir(file, "editions")
  /\ \E i \in 3..Len(file.dirs) : file.dirs[i] = "tiddlers"
  /\ file.ext = ".tid"

\* CONFIG.requiresChangeNote.some(pattern => pattern.test(file))
matchesRequiresChangeNote(file) ==
  hasInnerDir(file, {"core", "plugin.info", "modules"})

\* The loop of checkNeedsChangeNote that gives up at the first editions
\* tiddler that requires no note.
RECURSIVE checkNeedsChangeNoteStopping(_)
checkNeedsChangeNoteStopping(files) ==
  IF files = <<>> THEN FALSE
  ELSE IF matchesSkipPattern(Head(files))
       THEN checkNeedsChangeNoteStopping(Tail(files))
       ELSE IF isEditionsTiddler(Head(files))
            THEN matchesRequiresChangeNote(Head(files))
            ELSE TRUE

\* checkNeedsChangeNote(files)
RECURSIVE checkNeedsChangeNote(_)
checkNeedsChangeNote(files) ==
  IF files = <<>> THEN FALSE
  ELSE IF matchesSkipPattern(Head(files))
       THEN checkNeedsChangeNote(Tail(files))
       ELSE IF isEditionsTiddler(Head(files))
            THEN IF matchesRequiresChangeNote(Head(files)) THEN TRUE
                 ELSE checkNeedsChangeNote(Tail(files))
            ELSE TRUE

\* /editions\/.*\/tiddlers\/releasenotes\//.test(file)
isReleaseNotesPath(file) ==
  \E i \in 1..Len(file.dirs) : \E j \in (i + 2)..(Len(file.dirs) - 1) :
    /\ file.dirs[i] = "editions"
    /\ file.dirs[j] = "tiddlers" /\ file.dirs[j + 1] = "releasenotes"

\* f.match(/editions\/.*\/tiddlers\/releasenotes\/.*\.tid$/)
isReleaseNotesTid(file) == isReleaseNotesPath(file) /\ file.ext = ".tid"

\* ------------------------------------------------------------------ note schemas
\* The value of a field the tiddler does not have.
\* The backtick of the messages.
Tick == "TICK"
undefined == "undefined"
\* !fieldValue
falsy(v) == v = undefined \/ v = ""

ChangeNoteTag == "$:/tags/ChangeNote"
ImpactNoteTag == "$:/tags/ImpactNote"
BothTags == "$:/tags/ChangeNote $:/tags/ImpactNote"
\* String.prototype.includes on the tags strings of the tiddlers
stringIncludes(v, sub) ==
  \/ v = sub
  \/ v = BothTags /\ sub \in {ChangeNoteTag, ImpactNoteTag}

GoodChangeTitle == "$:/changenotes/5.4.0/#9000"
GoodImpactTitle == "$:/changenotes/5.4.0/#9000/impacts/my-impact"
GoodRelease == "5.4.0"
\* CONFIG.validation[name].test(v) on the values the tiddlers hold
patternTest(name, v) ==
  CASE name = "titlePattern" -> v = GoodChangeTitle
    [] name = "releasePattern" -> v = GoodRelease
    [] name = "impactTitlePattern" -> v = GoodImpactTitle

\* A field of a schema; "" where the schema declares no pattern, contains,
\* validValues or missingMessage.
Field(name, pattern, contains, validValues, errorMessage, missingMessage) ==
  [name |-> name, required |-> TRUE, pattern |-> pattern, contains |-> contains,
   validValues |-> validValues, errorMessage |-> errorMessage,
   missingMessage |-> missingMessage]
Required(name, text) ==
  Field(name, "", "", "", <<"Missing field: ", Tick, name>> \o text, <<>>)
Enumerated(name, validValues) ==
  Field(name, "", "", validValues,
        <<"Invalid ", name, ": ", Tick, "{value}", Tick, " is not valid. Must be one of: ", Tick,
          "{validValues}", Tick>>,
        <<"Missing field: ", Tick, name, Tick, " is required. Valid values: ", Tick,
          "{validValues}", Tick>>)

\* CONFIG.changeNoteFields, in declaration order
changeNoteFields ==
  << Field("title", "titlePattern", "", "",
           <<"Title format: Expected ", Tick, "$:/changenotes/<version>/<#issue or commit-hash>", Tick, ", found: ", Tick,
             "{value}", Tick>>, <<>>),
     Field("tags", "", ChangeNoteTag, "",
           <<"Tags: Must include ", Tick, ChangeNoteTag, Tick, ", found: ", Tick, "{value}", Tick>>,
           <<>>),
     Enumerated("change-type", "changeTypes"),
     Enumerated("change-category", "changeCategories"),
     Required("description", <<Tick, " is required">>),
     Field("release", "releasePattern", "", "",
           <<"Invalid ", "release", " format: Expected ", Tick, "X.Y.Z", Tick, " format, found: ", Tick,
             "{value}", Tick>>,
           <<"Missing field: ", Tick, "release", Tick, " is required (e.g., ", Tick, "5.4.0", Tick, ")">>),
     Required("github-links", <<Tick, " is required">>),
     Required("github-contributors", <<Tick, " is required">>) >>

\* CONFIG.impactNoteFields, in declaration order
impactNoteFields ==
  << Field("title", "impactTitlePattern", "", "",
           <<"Title format: Expected ", Tick, "$:/changenotes/<version>/<change-id>/impacts/<identifier>", Tick, ", found: ", Tick,
             "{value}", Tick>>, <<>>),
     Field("tags", "", ImpactNoteTag, "",
           <<"Tags: Must include ", Tick, ImpactNoteTag, Tick, ", found: ", Tick, "{value}", Tick>>,
           <<>>),
     Enumerated("impact-type", "impactTypes"),
     Required("changenote", <<Tick, " is required (the title of the associated change note)">>),
     Required("description", <<Tick, " is required">>),
     Required("created", <<Tick, " is required (in DateFormat, e.g., ", Tick, "20250901000000000", Tick, ")">>),
     Required("modified", <<Tick, " is required (in DateFormat, e.g., ", Tick, "20250901000000000", Tick, ")">>) >>

FieldNames ==
  {changeNoteFields[i].name : i \in 1..Len(changeNoteFields)}
    \cup {impactNoteFields[i].name : i \in 1..Len(impactNoteFields)}

\* The lists loadReleasesInfo reads from ReleasesInfo.multids
ReleasesInfo ==
  [changeTypes |-> <<"bugfix", "feature">>, changeCategories |-> <<"internal">>,
   impactTypes |-> <<"deprecation">>]

\* template.replace(/\{(\w+)\}/g, ...): a placeholder whose key has a value
\* is replaced by it, any other is left as it is.
RECURSIVE interpolateMessage(_, _)
interpolateMessage(template, values) ==
  IF template = <<>> THEN <<>>
  ELSE LET h == Head(template)
           x == IF h = "{value}" /\ values.value # undefined THEN <<values.value>>
                ELSE IF h = "{validValues}" /\ values.hasValidValues
                     THEN values.validValues
                     ELSE <<h>>
       IN x \o interpolateMessage(Tail(template), values)

\* validValues.join(", ")
joinValues(validValues) ==
  join([i \in 1..Len(validValues) |-> <<validValues[i]>>], <<", ">>)

\* validateField: fileErrors with the issue of the field pushed, if it has one
validateField(fieldValue, fieldConfig, fileErrors, releasesInfo) ==
  IF fieldConfig.required /\ falsy(fieldValue)
  THEN LET message == IF fieldConfig.missingMessage # <<>>
                      THEN fieldConfig.missingMessage ELSE fieldConfig.errorMessage
       IN Append(fileErrors, interpolateMessage(message,
            [value |-> fieldValue, hasValidValues |-> TRUE,
             validValues |-> IF fieldConfig.validValues # ""
                             THEN joinValues(releasesInfo[fieldConfig.validValues])
                             ELSE <<"">>]))
  ELSE IF falsy(fieldValue) THEN fileErrors
  ELSE IF fieldConfig.pattern # "" /\ ~patternTest(fieldConfig.pattern, fieldValue)
  THEN Append(fileErrors, interpolateMessage(fieldConfig.errorMessage,
         [value |-> fieldValue, hasValidValues |-> FALSE, validValues |-> <<>>]))
  ELSE IF fieldConfig.contains # "" /\ ~stringIncludes(fieldValue, fieldConfig.contains)
  THEN Append(fileErrors, interpolateMessage(fieldConfig.errorMessage,
         [value |-> fieldValue, hasValidValues |-> FALSE, validValues |-> <<>>]))
  ELSE IF /\ fieldConfig.validValues # ""
          /\ \A i \in 1..Len(releasesInfo[fieldConfig.validValues]) :
               releasesInfo[fieldConfig.validValues][i] # fieldValue
  THEN Append(fileErrors, interpolateMessage(fieldConfig.errorMessage,
         [value |-> fieldValue, hasValidValues |-> TRUE,
          validValues |-> joinValues(releasesInfo[fieldConfig.validValues])]))
  ELSE fileErrors

\* The loop over the fields of a schema that ends at the first field with an
\* issue.
RECURSIVE validateFieldsUntilIssue(_, _, _, _, _)
validateFieldsUntilIssue(schema, i, fields, fileErrors, releasesInfo) ==
  IF i > Len(schema) \/ fileErrors # <<>> THEN fileErrors
  ELSE validateFieldsUntilIssue(schema, i + 1, fields,
         validateField(fields[schema[i].name], schema[i], fileErrors, releasesInfo),
         releasesInfo)

\* for (const [fieldName, fieldConfig] of Object.entries(schema)) validateField(...)
RECURSIVE validateFields(_, _, _, _, _)
validateFields(schema, i, fields, fileErrors, releasesInfo) ==
  IF i > Len(schema) THEN fileErrors
  ELSE validateFields(schema, i + 1, fields,
         validateField(fields[schema[i].name], schema[i], fileErrors, releasesInfo),
         releasesInfo)

validateChangeNote(fields, fileErrors, releasesInfo) ==
  validateFields(changeNoteFields, 1, fields, fileErrors, releasesInfo)
validateImpactNote(fields, fileErrors, releasesInfo) ==
  validateFields(impactNoteFields, 1, fields, fileErrors, releasesInfo)

\* ------------------------------------------------------------------ note files
\* The fields object of a tiddler with no fields.
NoFields == [n \in FieldNames |-> undefined]
\* parseTiddlerFile: null for a file that does not exist or is empty,
\* otherwise the fields of its header lines.
Null == [null |-> TRUE, fields |-> NoFields]
Parsed(fields) == [null |-> FALSE, fields |-> fields]

GoodChangeNote ==
  [NoFields EXCEPT !["title"] = GoodChangeTitle, !["tags"] = ChangeNoteTag,
                   !["change-type"] = "bugfix", !["change-category"] = "internal",
                   !["description"] = "text", !["release"] = GoodRelease,
                   !["github-links"] = "link", !["github-contributors"] = "user"]
GoodImpactNote ==
  [NoFields EXCEPT !["title"] = GoodImpactTitle, !["tags"] = ImpactNoteTag,
                   !["impact-type"] = "deprecation",
                   !["changenote"] = GoodChangeTitle, !["description"] = "text",
                   !["created"] = "20250901000000000",
                   !["modified"] = "20250901000000000"]
\* The files the repository can hold at a release-notes path.
NoteFiles ==
  { Null,
    Parsed(NoFields),
    Parsed([NoFields EXCEPT !["tags"] = "docs", !["title"] = "Release 5.4.0"]),
    Parsed(GoodChangeNote),
    Parsed([GoodChangeNote EXCEPT !["tags"] = BothTags]),
    Parsed([GoodChangeNote EXCEPT !["release"] = undefined,
                                  !["github-links"] = ""]),
    Parsed([GoodChangeNote EXCEPT !["change-type"] = "typo"]),
    Parsed(GoodImpactNote),
    Parsed([GoodImpactNote EXCEPT !["title"] = GoodChangeTitle]) }

NotePaths == {NoteTid("n1"), NoteTid("n2")}
\* The working directory of a run: whether ReleasesInfo.multids exists, and
\* the files at the release-notes paths.
Repos == [hasReleasesInfo : BOOLEAN, files : [NotePaths -> NoteFiles]]

\* parseTiddlerFile(file, repoPath)
parseTiddlerFile(file, repo) ==
  IF file \in DOMAIN repo.files THEN repo.files[file] ELSE Null

\* loadReleasesInfo that reads no lists from a file that does not exist.
loadReleasesInfoLenient(repo) == [threw |-> FALSE, releasesInfo |-> ReleasesInfo]

\* loadReleasesInfo(repoPath): throws if the file does not exist
loadReleasesInfo(repo) ==
  [threw |-> ~repo.hasReleasesInfo, releasesInfo |-> ReleasesInfo]

\* fields.tags || ""
tagsOf(fields) == IF falsy(fields["tags"]) THEN "" ELSE fields["tags"]

\* The body of the loop of validateChangeNotes that pushes an entry for
\* every file it validated, with or without issues.
validateFilePushAlways(file, repo, releasesInfo, errors) ==
  IF ~isReleaseNotesPath(file) THEN errors
  ELSE LET parsed == parseTiddlerFile(file, repo)
           tags == tagsOf(parsed.fields)
       IN IF parsed.null
          THEN Append(errors, [file |-> file,
                               issues |-> << <<"File not found or cannot be read">> >>])
          ELSE IF stringIncludes(tags, ChangeNoteTag)
          THEN Append(errors, [file |-> file,
                 issues |-> validateChangeNote(parsed.fields, <<>>, releasesInfo)])
          ELSE IF stringIncludes(tags, ImpactNoteTag)
          THEN Append(errors, [file |-> file,
                 issues |-> validateImpactNote(parsed.fields, <<>>, releasesInfo)])
          ELSE errors

\* The body of the loop of validateChangeNotes that looks for the
\* ImpactNote tag first.
validateFileImpactFirst(file, repo, releasesInfo, errors) ==
  IF ~isReleaseNotesPath(file) THEN errors
  ELSE LET parsed == parseTiddlerFile(file, repo)
           tags == tagsOf(parsed.fields)
           fileErrors ==
             IF stringIncludes(tags, ImpactNoteTag)
             THEN validateImpactNote(parsed.fields, <<>>, releasesInfo)
             ELSE IF stringIncludes(tags, ChangeNoteTag)
             THEN validateChangeNote(parsed.fields, <<>>, releasesInfo)
             ELSE <<>>
       IN IF parsed.null
          THEN Append(errors, [file |-> file,
                               issues |-> << <<"File not found or cannot be read">> >>])
          ELSE IF fileErrors # <<>>
          THEN Append(errors, [file |-> file, issues |-> fileErrors])
          ELSE errors

\* The body of the loop of validateChangeNotes for one file: errors with
\* the entry of the file pushed, if it has one.
validateFile(file, repo, releasesInfo, errors) ==
  IF ~isReleaseNotesPath(file) THEN errors
  ELSE LET parsed == parseTiddlerFile(file, repo)
           tags == tagsOf(parsed.fields)
           fileErrors ==
             IF stringIncludes(tags, ChangeNoteTag)
             THEN validateChangeNote(parsed.fields, <<>>, releasesInfo)
             ELSE IF stringIncludes(tags, ImpactNoteTag)
             THEN validateImpactNote(parsed.fields, <<>>, releasesInfo)
             ELSE <<>>
       IN IF parsed.null
          THEN Append(errors, [file |-> file,
                               issues |-> << <<"File not found or cannot be read">> >>])
          ELSE IF fileErrors # <<>>
          THEN Append(errors, [file |-> file, issues |-> fileErrors])
          ELSE errors

\* for (const file of files) ...
RECURSIVE validateFiles(_, _, _, _)
validateFiles(files, repo, releasesInfo, errors) ==
  IF files = <<>> THEN errors
  ELSE validateFiles(Tail(files), repo, releasesInfo,
                     validateFile(Head(files), repo, releasesInfo, errors))

\* validateChangeNotes(files, repoPath): throws without ReleasesInfo.multids,
\* otherwise the ValidationResult
validateChangeNotes(files, repo) ==
  LET loaded == loadReleasesInfo(repo)
      errors == validateFiles(files, repo, loaded.releasesInfo, <<>>)
  IN IF loaded.threw THEN [threw |-> TRUE, success |-> FALSE, errors |-> <<>>]
     ELSE [threw |-> FALSE, success |-> errors = <<>>, errors |-> errors]

\* ------------------------------------------------------------------ note reports
\* `${x}` of a field in a template literal
orUntitled(v) == IF falsy(v) THEN "Untitled" ELSE v
ifSet(v, text) == IF falsy(v) THEN <<>> ELSE text

formatChangeNote(fields) ==
  <<"### ", orUntitled(fields["title"]), NL, NL,
    "Type: **", fields["change-type"], "** | Category: **",
    fields["change-category"], "**", NL>>
    \o ifSet(fields["release"], <<"Release: **", fields["release"], "**", NL>>)
    \o <<NL>>
    \o ifSet(fields["description"], <<"> ", fields["description"], NL, NL>>)
    \o ifSet(fields["github-links"], <<fields["github-links"], NL, NL>>)
    \o ifSet(fields["github-contributors"],
             <<"Contributors: **", fields["github-contributors"], "**", NL, NL>>)
    \o <<"---", NL>>

formatImpactNote(fields) ==
  <<"### Impact: **", orUntitled(fields["title"]), "**", NL, NL,
    "Impact Type: **", fields["impact-type"], "**", NL>>
    \o ifSet(fields["changenote"],
             <<"Related Change: **", fields["changenote"], "**", NL>>)
    \o <<NL>>
    \o ifSet(fields["description"], <<"> ", fields["description"], NL, NL>>)
    \o <<"---", NL>>

\* The output array of parseChangeNotes
RECURSIVE formatNotes(_, _)
formatNotes(files, repo) ==
  IF files = <<>> THEN <<>>
  ELSE LET parsed == parseTiddlerFile(Head(files), repo)
           tags == tagsOf(parsed.fields)
           rest == formatNotes(Tail(files), repo)
       IN IF parsed.null THEN rest
          ELSE IF stringIncludes(tags, ChangeNoteTag)
          THEN <<formatChangeNote(parsed.fields)>> \o rest
          ELSE IF stringIncludes(tags, ImpactNoteTag)
          THEN <<formatImpactNote(parsed.fields)>> \o rest
          ELSE rest

\* parseChangeNotes(files, repoPath): output.join("\n")
parseChangeNotes(files, repo) == join(formatNotes(files, repo), <<NL>>)

\* errorText of generateValidationFailedComment; a file is shown by its name
RECURSIVE issueLines(_)
issueLines(issues) ==
  IF issues = <<>> THEN <<>>
  ELSE <<"- ">> \o Head(issues) \o <<NL>> \o issueLines(Tail(issues))
RECURSIVE errorText(_)
errorText(errors) ==
  IF errors = <<>> THEN <<>>
  ELSE <<"### ", Tick, Head(errors).file.base, Tick, NL, NL>>
         \o issueLines(Head(errors).issues) \o <<NL>> \o errorText(Tail(errors))

generateValidationFailedComment(errors) ==
  <<"changenote-validation-failed", NL, NL>> \o errorText(errors)
generateMissingNotesComment == <<"changenote-missing-notes">>
generateDocOnlyComment == <<"changenote-doc-only">>
generateDocOnlyWithNotesComment == <<"changenote-doc-only-with-notes">>

\* releaseNotesFiles.some(f => fields && (tags includes ChangeNote or ImpactNote))
hasActualNotes(releaseNotesFiles, repo) ==
  \E i \in 1..Len(releaseNotesFiles) :
    LET parsed == parseTiddlerFile(releaseNotesFiles[i], repo) IN
    /\ ~parsed.null
    /\ \/ stringIncludes(tagsOf(parsed.fields), ChangeNoteTag)
       \/ stringIncludes(tagsOf(parsed.fields), ImpactNoteTag)

\* The report of a failed validation that passes the run.
failureReportPassing(validation, needsChangeNote, releaseNotesFiles, repo) ==
  [commentBody |-> generateValidationFailedComment(validation.errors),
   validationPassed |-> TRUE]

\* The else branch that fails the run whatever the files are.
failureReportFailing(validation, needsChangeNote, releaseNotesFiles, repo) ==
  IF ~hasActualNotes(releaseNotesFiles, repo)
  THEN [commentBody |-> IF needsChangeNote THEN generateMissingNotesComment
                        ELSE generateDocOnlyWithNotesComment,
        validationPassed |-> FALSE]
  ELSE [commentBody |-> generateValidationFailedComment(validation.errors),
        validationPassed |-> FALSE]

\* The else branch of `if (validation.success)`
failureReport(validation, needsChangeNote, releaseNotesFiles, repo) ==
  IF ~hasActualNotes(releaseNotesFiles, repo) /\ needsChangeNote
  THEN [commentBody |-> generateMissingNotesComment, validationPassed |-> FALSE]
  ELSE IF ~hasActualNotes(releaseNotesFiles, repo)
  THEN [commentBody |-> generateDocOnlyWithNotesComment, validationPassed |-> TRUE]
  ELSE [commentBody |-> generateValidationFailedComment(validation.errors),
        validationPassed |-> FALSE]

\* The handler from listFiles to the comment body: commentBody and
\* validationPassed, or fatal when validateNotes threw.
changeNoteReport(allFiles, repo) ==
  LET releaseNotesFiles == SelectSeq(allFiles, isReleaseNotesTid)
      needsChangeNote == checkNeedsChangeNote(allFiles)
      hasChangeNotes == Len(releaseNotesFiles) > 0
      validation == validateChangeNotes(releaseNotesFiles, repo)
      report ==
        IF hasChangeNotes
        THEN IF validation.success
             THEN IF needsChangeNote
                  THEN [commentBody |-> generateSuccessComment(
                                          parseChangeNotes(releaseNotesFiles, repo)),
                        validationPassed |-> TRUE]
                  ELSE [commentBody |-> generateDocOnlyWithNotesComment,
                        validationPassed |-> TRUE]
             ELSE failureReport(validation, needsChangeNote, releaseNotesFiles, repo)
        ELSE IF needsChangeNote
             THEN [commentBody |-> generateMissingChangeNoteComment,
                   validationPassed |-> FALSE]
             ELSE [commentBody |-> generateDocOnlyComment, validationPassed |-> TRUE]
  IN IF hasChangeNotes /\ validation.threw
     THEN [fatal |-> TRUE, commentBody |-> <<>>, validationPassed |-> FALSE]
     ELSE [fatal |-> FALSE, commentBody |-> report.commentBody,
           validationPassed |-> report.validationPassed]

\* ------------------------------------------------------------------ notes alone
MaxChangedFiles == 3
MaxNoteFiles == 2

\* The sequences of at most n elements of S.
SeqsUpTo(S, n) == UNION {[1..k -> S] : k \in 0..n}

\* Fields objects of tiddlers tagged as change notes.
ChangeNoteInputs ==
  {[NoFields EXCEPT !["title"] = title, !["tags"] = tags, !["change-type"] = type,
                    !["change-category"] = category, !["description"] = description,
                    !["release"] = release, !["github-links"] = links,
                    !["github-contributors"] = contributors] :
     title \in {undefined, GoodChangeTitle, GoodImpactTitle},
     tags \in {undefined, "", ChangeNoteTag, ImpactNoteTag, BothTags, "docs"},
     type \in {undefined, "bugfix", "typo"},
     category \in {undefined, "internal"},
     description \in {undefined, "text"},
     release \in {undefined, GoodRelease, "next"},
     links \in {"", "link"},
     contributors \in {undefined, "user"}}

\* Fields objects of tiddlers tagged as impact notes.
ImpactNoteInputs ==
  {[NoFields EXCEPT !["title"] = title, !["tags"] = tags, !["impact-type"] = type,
                    !["changenote"] = changenote, !["description"] = description,
                    !["created"] = created, !["modified"] = modified] :
     title \in {undefined, GoodChangeTitle, GoodImpactTitle},
     tags \in {undefined, "", ChangeNoteTag, ImpactNoteTag, BothTags, "docs"},
     type \in {undefined, "deprecation", "typo"},
     changenote \in {undefined, GoodChangeTitle},
     description \in {undefined, "text"},
     created \in {"", "20250901000000000"},
     modified \in {undefined, "20250901000000000"}}

\* The changed files of the runs on their own.
RunPaths == {CoreJs, ReadmeMd} \cup NotePaths
\* The comments of the PR when such a run starts.
RunComments ==
  { <<>>,
    <<[id |-> 1, body |-> fullComment(pathSection(messagesOf(<<1>>))), by |-> 1]>>,
    <<[id |-> 1, body |-> fullComment(changeNoteSection(generateDocOnlyComment)),
       by |-> 1]>> }

\* checkNeedsChangeNote applied to the pending list
ApplyCheckNeedsChangeNote ==
  /\ lastNotes.op = "pending" /\ lastNotes.kind = "checkNeedsChangeNote"
  /\ lastNotes' = [lastNotes EXCEPT !.op = "done",
                                    !.result = checkNeedsChangeNote(lastNotes.files)]
  /\ UNCHANGED <<comments, nextId, pc, run, stopProcessing, runs, overlapped,
                 lastEval, lastReconcile, lastSize>>

\* validateChangeNote or validateImpactNote applied to the pending fields
ApplyValidateNote ==
  /\ lastNotes.op = "pending" /\ lastNotes.kind = "validateNote"
  /\ lastNotes' =
       [lastNotes EXCEPT
          !.op = "done",
          !.result = IF lastNotes.schema = "changeNoteFields"
                     THEN validateChangeNote(lastNotes.fields, <<>>, ReleasesInfo)
                     ELSE validateImpactNote(lastNotes.fields, <<>>, ReleasesInfo)]
  /\ UNCHANGED <<comments, nextId, pc, run, stopProcessing, runs, overlapped,
                 lastEval, lastReconcile, lastSize>>

\* validateChangeNotes applied to the pending list and working directory
ApplyValidateChangeNotes ==
  /\ lastNotes.op = "pending" /\ lastNotes.kind = "validateChangeNotes"
  /\ lastNotes' = [lastNotes EXCEPT
                     !.op = "done",
                     !.result = validateChangeNotes(lastNotes.files, lastNotes.repo)]
  /\ UNCHANGED <<comments, nextId, pc, run, stopProcessing, runs, overlapped,
                 lastEval, lastReconcile, lastSize>>

\* The comment I/O and the end of the handler for a report: the comments
\* after the run and what the run did.
writeReport(report, existing, cs, id, dryRun) ==
  [comments |-> IF ~report.fatal /\ ~dryRun
                THEN updateOrPost(cs, existing, id,
                       changeNotesBody([NoRun EXCEPT
                         !.existing = existing,
                         !.section = changeNoteSection(report.commentBody)]), 1)
                ELSE cs,
   result |-> [fatal |-> report.fatal,
               commentBody |-> report.commentBody,
               validationPassed |-> report.validationPassed,
               before |-> cs,
               wrote |-> ~report.fatal /\ ~dryRun,
               threw |-> report.fatal \/ ~report.validationPassed]]

\* validateChangeNotes of validate-changenotes, the whole handler, with no
\* other run in flight: report, comment, throw.
ValidateChangeNotesRun ==
  /\ lastNotes.op = "pending" /\ lastNotes.kind = "run"
  /\ \E out \in {writeReport(changeNoteReport(lastNotes.files, lastNotes.repo),
                              getExistingComment(comments, CEREBRUS_IDENTIFIER),
                              comments, nextId, lastNotes.dryRun)} :
       /\ comments' = out.comments
       /\ nextId' = IF Len(out.comments) > Len(comments) THEN nextId + 1 ELSE nextId
       /\ lastNotes' = [lastNotes EXCEPT !.op = "done", !.result = out.result]
  /\ UNCHANGED <<pc, run, stopProcessing, runs, overlapped, lastEval, lastReconcile,
                 lastSize>>

NotesInit ==
  /\ pc = [p \in Procs |-> "idle"]
  /\ run = [p \in Procs |-> NoRun]
  /\ stopProcessing = [i \in RuleIds |-> FALSE]
  /\ runs = 0
  /\ overlapped = FALSE
  /\ lastEval = NoEval
  /\ lastReconcile = NoReconcile
  /\ \/ /\ comments = <<>>
        /\ \/ \E files \in SeqsUpTo(ChangedPaths, MaxChangedFiles) :
                lastNotes = [op |-> "pending", kind |-> "checkNeedsChangeNote",
                             files |-> files, result |-> FALSE]
           \/ \E fields \in ChangeNoteInputs :
                lastNotes = [op |-> "pending", kind |-> "validateNote",
                             schema |-> "changeNoteFields", fields |-> fields,
                             result |-> <<>>]
           \/ \E fields \in ImpactNoteInputs :
                lastNotes = [op |-> "pending", kind |-> "validateNote",
                             schema |-> "impactNoteFields", fields |-> fields,
                             result |-> <<>>]
           \/ \E files \in SeqsUpTo(RunPaths, MaxNoteFiles), repo \in Repos :
                lastNotes = [op |-> "pending", kind |-> "validateChangeNotes",
                             files |-> files, repo |-> repo, result |-> <<>>]
     \/ /\ comments \in RunComments
        /\ \E files \in SeqsUpTo(RunPaths, MaxNoteFiles), repo \in Repos,
              dryRun \in BOOLEAN :
             lastNotes = [op |-> "pending", kind |-> "run", files |-> files,
                          repo |-> repo, dryRun |-> dryRun, result |-> <<>>]
  /\ nextId = Len(comments) + 1
  /\ lastSize = NoSize
NotesNext ==
  \/ ApplyCheckNeedsChangeNote
  \/ ApplyValidateNote
  \/ ApplyValidateChangeNotes
  \/ ValidateChangeNotesRun
NotesSpec == NotesInit /\ [][NotesNext]_vars

\* ------------------------------------------------------------------ build size alone
\* An input of the action is the sequence of its characters.
DigitChars == <<"0", "1", "2", "3", "4", "5", "6", "7", "8", "9">>
isDigit(c) == \E d \in 1..Len(DigitChars) : DigitChars[d] = c
allDigits(s) == s # <<>> /\ \A i \in 1..Len(s) : isDigit(s[i])
RECURSIVE decimalValue(_)
decimalValue(s) ==
  IF s = <<>> THEN 0
  ELSE 10 * decimalValue(SubSeq(s, 1, Len(s) - 1))
         + (CHOOSE d \in 0..9 : DigitChars[d + 1] = s[Len(s)])
RECURSIVE stripWhiteSpace(_)
stripWhiteSpace(s) ==
  IF s = <<>> THEN s
  ELSE IF Head(s) = " " THEN stripWhiteSpace(Tail(s))
  ELSE IF s[Len(s)] = " " THEN stripWhiteSpace(SubSeq(s, 1, Len(s) - 1))
  ELSE s

\* Number(input) on a string: white space around it is dropped, the empty
\* string is 0, a signed decimal integer is its value, other text is NaN.
\* (Fractions, exponents, hexadecimal and Infinity are not among the inputs.)
Number(input) ==
  LET s == stripWhiteSpace(input) IN
  IF s = <<>> THEN [nan |-> FALSE, value |-> 0]
  ELSE IF Head(s) \in {"-", "+"} /\ allDigits(Tail(s))
  THEN [nan |-> FALSE,
        value |-> IF Head(s) = "-" THEN 0 - decimalValue(Tail(s))
                  ELSE decimalValue(Tail(s))]
  ELSE IF allDigits(s) THEN [nan |-> FALSE, value |-> decimalValue(s)]
  ELSE [nan |-> TRUE, value |-> 0]

\* The pr_size and base_size inputs of the runs on their own: not given,
\* blank, text, negative, zero, and sizes whose differences lie on both sides
\* of the limits of a significant change.
SizeInputs ==
  { <<>>, <<" ">>, <<"a", "b", "c">>, <<"-", "1">>, <<"0">>, <<"1">>,
    <<"2", "0", "4", "8", "1">>, <<"2", "0", "4", "8", "2">>,
    <<"4", "0", "9", "6", "1">>, <<"4", "0", "9", "6", "2">> }

\* The comments of the PR when such a run starts.
SizeComments ==
  { <<>>,
    <<[id |-> 1, body |-> fullComment(pathSection(messagesOf(<<1>>))), by |-> 1]>>,
    <<[id |-> 1, body |-> fullComment(buildSizeSection(generateMarkdown(2048, 1024))),
       by |-> 1]>> }

\* commentSize of build-size-report under GitHub Actions, the whole handler
\* with no other run in flight: the inputs are converted and checked, the
\* message is generated and, unless it is a dry run, the comment is read and
\* the build size section is written.  (base_ref is taken to be valid.)
commentSize(prSizeInput, baseSizeInput, dryRun, cs, id) ==
  LET prSize == Number(prSizeInput)
      baseSize == Number(baseSizeInput)
      threw == \/ prSize.nan \/ prSize.value < 0
               \/ baseSize.nan \/ baseSize.value <= 0
      message == IF threw THEN <<>>
                 ELSE generateMarkdown(prSize.value, baseSize.value)
      existing == getExistingComment(cs, CEREBRUS_IDENTIFIER)
      write == ~threw /\ ~dryRun
  IN [comments |-> IF write
                   THEN updateOrPost(cs, existing, id,
                          sizeBody([NoRun EXCEPT
                            !.existing = existing,
                            !.section = buildSizeSection(message)]), 1)
                   ELSE cs,
      result |-> [threw |-> threw, prSize |-> prSize.value,
                  baseSize |-> baseSize.value, message |-> message,
                  before |-> cs, read |-> write, wrote |-> write]]

\* commentSize applied to the pending inputs
CommentSize ==
  /\ lastSize.op = "pending"
  /\ \E out \in {commentSize(lastSize.prSizeInput, lastSize.baseSizeInput,
                              lastSize.dryRun, comments, nextId)} :
       /\ comments' = out.comments
       /\ nextId' = IF Len(out.comments) > Len(comments) THEN nextId + 1 ELSE nextId
       /\ lastSize' = [lastSize EXCEPT !.op = "done", !.result = out.result]
  /\ UNCHANGED <<pc, run, stopProcessing, runs, overlapped, lastEval, lastReconcile,
                 lastNotes>>

SizeInit ==
  /\ pc = [p \in Procs |-> "idle"]
  /\ run = [p \in Procs |-> NoRun]
  /\ stopProcessing = [i \in RuleIds |-> FALSE]
  /\ runs = 0
  /\ overlapped = FALSE
  /\ lastEval = NoEval
  /\ lastReconcile = NoReconcile
  /\ lastNotes = NoNotes
  /\ comments \in SizeComments
  /\ nextId = Len(comments) + 1
  /\ \E prSizeInput \in SizeInputs, baseSizeInput \in SizeInputs, dryRun \in BOOLEAN :
       lastSize = [op |-> "pending", prSizeInput |-> prSizeInput,
                   baseSizeInput |-> baseSizeInput, dryRun |-> dryRun,
                   result |-> <<>>]
SizeNext == CommentSize
SizeSpec == SizeInit /\ [][SizeNext]_vars

\* ------------------------------------------------------------------ observation
\* Number of occurrences of tok in s.
CountTok(s, tok) == Cardinality({i \in 1..Len(s) : s[i] = tok})

\* s holds sub as a contiguous piece.
Contains(s, sub) ==
  \E i \in 1..(Len(s) - Len(sub) + 1) : SubSeq(s, i, i + Len(sub) - 1) = sub

\* The spans of a section in s, in order, as the global regular expression
\* of its markers finds them.
RECURSIVE spansFrom(_, _, _, _)
spansFrom(s, start, end, from) ==
  LET m == regexExec(s, start, end, FALSE, from) IN
  IF m[1] = 0 THEN <<>>
  ELSE <<SubSeq(s, m[1], m[2])>> \o spansFrom(s, start, end, m[2] + 1)
spans(s, markers) == spansFrom(s, markers[1], markers[2], 1)

PathMarkers == <<PATH_VALIDATION_SECTION_START, PATH_VALIDATION_SECTION_END>>
ChangeNoteMarkers == <<CHANGENOTE_SECTION_START, CHANGENOTE_SECTION_END>>
BuildSizeMarkers == <<BUILD_SIZE_SECTION_START, BUILD_SIZE_SECTION_END>>
AllMarkers == {PathMarkers, ChangeNoteMarkers, BuildSizeMarkers}
ownMarkers(mode) ==
  CASE mode = "rules" -> PathMarkers
    [] mode = "changenotes" -> ChangeNoteMarkers
    [] mode = "size:comment" -> BuildSizeMarkers

SectionedModes == {"rules", "changenotes", "size:comment"}

\* The comments that carry the identifier.
CerebrusComments ==
  {i \in 1..Len(comments) : includes(comments[i].body, CEREBRUS_IDENTIFIER)}

\* The sections the validators can hand to their reconcilers.
PathSections == {pathSection(messagesOf(<<i>>)) : i \in RuleIds}
ChangeNoteSections == {changeNoteSection(r.commentBody) : r \in ChangeNoteReports}
BuildSizeSections ==
  {buildSizeSection(generateMarkdown(a, b)) : a \in PrSizes, b \in BaseSizes}

\* Run p has ended after updating the comment it had found.
UpdatedExisting(p) ==
  /\ pc[p] = "done" /\ run[p].mode \in SectionedModes
  /\ run[p].wrote /\ run[p].existing.id # 0

\* ------------------------------------------------------------------ C1
\* C1: a run of one validator that updates an existing Cerebrus comment
\* leaves the spans (markers and content) of every other validator's section
\* as they were in the body it read, whether it replaces, appends or removes
\* its own section.
OtherSectionsUntouched ==
  \A p \in Procs :
    UpdatedExisting(p) =>
      \A m \in AllMarkers \ {ownMarkers(run[p].mode)} :
        spans(bodyToWrite(p), m) = spans(run[p].existing.body, m)

\* ------------------------------------------------------------------ C2
\* C2: reconciling a section into a body twice with the same section gives
\* the body that reconciling it once gives, for every body a Cerebrus comment
\* of the PR has and each of the three reconcilers.
ReconcileIdempotent ==
  \A i \in CerebrusComments :
    LET b == comments[i].body IN
    /\ \A s \in PathSections :
         replaceOrAppendSectionPath(replaceOrAppendSectionPath(b, s), s)
           = replaceOrAppendSectionPath(b, s)
    /\ \A s \in ChangeNoteSections :
         replaceOrAppendSectionChangeNote(replaceOrAppendSectionChangeNote(b, s), s)
           = replaceOrAppendSectionChangeNote(b, s)
    /\ \A s \in BuildSizeSections :
         replaceOrAppendSectionBuildSize(replaceOrAppendSectionBuildSize(b, s), s)
           = replaceOrAppendSectionBuildSize(b, s)

\* ------------------------------------------------------------------ C3
\* The body is what a validator of that mode creates when no comment exists:
\* the identifier, a blank line and one section of the mode's markers.
CreatedBy(mode, body) ==
  LET m == ownMarkers(mode) IN
  /\ Len(body) >= 5
  /\ SubSeq(body, 1, 3) = <<CEREBRUS_IDENTIFIER, NL, NL>>
  /\ body[4] = m[1] /\ body[Len(body)] = m[2]
  /\ CountTok(body, m[1]) = 1 /\ CountTok(body, m[2]) = 1
  /\ CountTok(body, CEREBRUS_IDENTIFIER) = 1

\* C3: when a validator created the comment with a section X and the same
\* validator then reconciles a section Y, the body it writes holds the
\* identifier once and exactly one span of that section, whose content is Y.
SecondRunReplaces ==
  \A p \in Procs :
    (UpdatedExisting(p) /\ run[p].section # <<>>
       /\ CreatedBy(run[p].mode, run[p].existing.body)) =>
      /\ spans(bodyToWrite(p), ownMarkers(run[p].mode)) = <<run[p].section>>
      /\ CountTok(bodyToWrite(p), CEREBRUS_IDENTIFIER) = 1

\* ------------------------------------------------------------------ C4
\* The first rule in list order that matches and has stopProcessing, or
\* NRules + 1 when there is none.
FirstStop(baseRef, changedFiles, stop) ==
  LET S == {i \in RuleIds : condition(i, baseRef, changedFiles) /\ stop[i]} IN
  IF S = {} THEN NRules + 1 ELSE CHOOSE i \in S : \A j \in S : i <= j

\* C4: the rules are evaluated in list order; each matched rule appends its
\* message; the first matched rule with stopProcessing sets abort and ends
\* the evaluation, so no later rule is evaluated; a stopProcessing rule that
\* does not match changes nothing.
EvaluationOrder ==
  lastEval # NoEval =>
    LET b == lastEval.baseRef
        f == lastEval.changedFiles
        r == lastEval.result
        k == FirstStop(b, f, stopProcessing)
        M == {i \in RuleIds : i <= k /\ condition(i, b, f)}
    IN /\ r.evaluated = {i \in RuleIds : i <= k}
       /\ r.abort = (k <= NRules)
       /\ Len(r.matchedIds) = Cardinality(M)
       /\ \A j \in 1..Len(r.matchedIds) : r.matchedIds[j] \in M
       /\ \A j \in 1..(Len(r.matchedIds) - 1) : r.matchedIds[j] < r.matchedIds[j + 1]
       /\ r.messages = [j \in 1..Len(r.matchedIds) |->
                          <<NL, NL, RuleMessage(r.matchedIds[j])>>]

\* An evaluation aborted by rule 3 after a matched rule 1 without the flag
\* and an unmatched stopProcessing rule 2, with rule 4 matching the input but
\* never evaluated.
EvaluationOrderWitness ==
  /\ lastEval # NoEval
  /\ lastEval.result.abort
  /\ stopProcessing[2] /\ ~condition(2, lastEval.baseRef, lastEval.changedFiles)
  /\ lastEval.result.matchedIds = <<1, 3>>
  /\ condition(4, lastEval.baseRef, lastEval.changedFiles)
  /\ 4 \notin lastEval.result.evaluated

\* ------------------------------------------------------------------ C5
\* Run p is a run of validate-rules that has ended and was no dry run.
RulesRunEnded(p) == pc[p] = "done" /\ run[p].mode = "rules" /\ ~run[p].dryRun

\* The body of the Cerebrus comment, empty when there is none.
CerebrusBody == getExistingComment(comments, CEREBRUS_IDENTIFIER).body

AtMostOneCerebrusComment == Cardinality(CerebrusComments) <= 1

\* C6 for runs executed one at a time: as long as no run has started while
\* another had not ended, at most one comment carries the identifier.
AtMostOneWithoutOverlap == ~overlapped => Cardinality(CerebrusComments) <= 1

\* Three runs one after the other: the first created the comment, the last
\* has found and updated it.
SingleCommentWitness ==
  /\ ~overlapped /\ runs = 3
  /\ Cardinality(CerebrusComments) = 1
  /\ \E p \in Procs : UpdatedExisting(p)

\* ------------------------------------------------------------------ C7
\* The body a run computes from the body it read.
FromReadBody(r) ==
  CASE r.mode = "rules" -> rulesBody(r)
    [] r.mode = "changenotes" -> changeNotesBody(r)
    [] r.mode = "size:comment" -> sizeBody(r)

\* The comment with the given id.
CommentWithId(id) ==
  comments[CHOOSE i \in 1..Len(comments) : comments[i].id = id]

\* C7: when another run has updated the comment between a run's read and
\* its write, the run still writes, and while it is the last writer the
\* comment's body is the body it computed from the body it had read.
LastWriterWins ==
  \A p \in Procs :
    (pc[p] = "done" /\ run[p].stale) =>
      /\ run[p].wrote \/ ~rulesWrites(run[p])
      /\ (run[p].wrote /\ CommentWithId(run[p].existing.id).by = p) =>
           CommentWithId(run[p].existing.id).body = FromReadBody(run[p])

\* Two runs read the same comment; the first to write added its section, the
\* second wrote afterwards and the first one's section is not in the comment.
LostUpdateWitness ==
  \E p \in Procs, q \in Procs :
    /\ p # q /\ pc[p] = "done" /\ pc[q] = "done"
    /\ run[p].stale /\ run[p].wrote /\ run[q].wrote /\ ~run[q].stale
    /\ run[q].existing = run[p].existing /\ run[p].existing.id # 0
    /\ run[q].section # <<>>
    /\ Contains(FromReadBody(run[q]), run[q].section)
    /\ CommentWithId(run[p].existing.id).by = p
    /\ ~Contains(CommentWithId(run[p].existing.id).body, run[q].section)

\* ------------------------------------------------------------------ C8
\* C8: after runs executed one at a time, exactly one comment carries the
\* identifier, its body holds the identifier once and at most one span of
\* each section, and the section of the run that has just written holds that
\* run's output.
SequentialRunsWellFormed ==
  /\ Cardinality(CerebrusComments) <= 1
  /\ \A i \in CerebrusComments :
       /\ CountTok(comments[i].body, CEREBRUS_IDENTIFIER) = 1
       /\ \A m \in AllMarkers : Len(spans(comments[i].body, m)) <= 1
  /\ (pc[1] = "done" /\ run[1].mode \in SectionedModes /\ run[1].wrote
        /\ run[1].section # <<>>) =>
       spans(CerebrusBody, ownMarkers(run[1].mode)) = <<run[1].section>>

\* ------------------------------------------------------------------ C9
\* The body holds a span of some section.
HasSection(body) == \E m \in AllMarkers : spans(body, m) # <<>>

\* C9: no run deletes a comment that holds a section.
SectionedCommentNeverDeleted ==
  \A p \in Procs :
    (pc[p] = "done" /\ run[p].deleted) => ~HasSection(run[p].existing.body)

\* ------------------------------------------------------------------ C10
\* Run p of validate-rules has ended with nothing to post, having found no
\* Cerebrus comment.
NothingToPostNoComment(p) ==
  RulesRunEnded(p) /\ ~shouldPost(run[p]) /\ run[p].existing.id = 0

\* C10 as stated: when no Cerebrus comment exists and there is nothing to
\* reconcile, the run leaves a comment that is just the identifier.
EmptyShellCreated ==
  \A p \in Procs :
    NothingToPostNoComment(p) =>
      \E i \in 1..Len(comments) : comments[i].body = <<CEREBRUS_IDENTIFIER>>

\* C10 as the code has it: when no Cerebrus comment exists and there is
\* nothing to post, the run sends nothing and no comment is created; a
\* comment that is just the identifier is what a run leaves when it removes
\* the only section of the comment it found.
NoCommentWithoutContent ==
  \A p \in Procs :
    /\ NothingToPostNoComment(p) => (~run[p].wrote /\ comments = <<>>)
    /\ (RulesRunEnded(p) /\ ~shouldPost(run[p])
          /\ CreatedBy("rules", run[p].existing.body)) =>
         (run[p].wrote /\ CerebrusBody = <<CEREBRUS_IDENTIFIER>>)

\* A run with nothing to post has ended on a PR without a comment.
NoCommentWitness ==
  \E p \in Procs : NothingToPostNoComment(p) /\ comments = <<>>

\* ------------------------------------------------------------------ C11
\* A section reconciliation has been applied to a body that holds a span of
\* the section.
ReplacedInBody ==
  /\ lastReconcile.op = "replaceOrAppendSection"
  /\ spans(lastReconcile.existingBody, markersOf(lastReconcile.kind)) # <<>>

\* C11: when the existing body holds a span of the section, the result is the
\* existing body with exactly its first shortest span replaced by the new
\* section: the text before the span and all the text after it, later spans
\* of the section included, are as they were.
FirstSpanReplaced ==
  ReplacedInBody =>
    LET b == lastReconcile.existingBody
        m == regexExec(b, markersOf(lastReconcile.kind)[1],
                       markersOf(lastReconcile.kind)[2], FALSE, 1)
    IN lastReconcile.result
         = SubSeq(b, 1, m[1] - 1) \o lastReconcile.newSection
             \o SubSeq(b, m[2] + 1, Len(b))

\* ------------------------------------------------------------------ C13
\* C13: when the existing body holds no complete span of the section, also
\* when it holds a start marker with no end marker after it, the result is
\* the existing body, a blank line and the new section.
AppendWithoutSpan ==
  (/\ lastReconcile.op = "replaceOrAppendSection"
   /\ spans(lastReconcile.existingBody, markersOf(lastReconcile.kind)) = <<>>) =>
    lastReconcile.result
      = lastReconcile.existingBody \o <<NL, NL>> \o lastReconcile.newSection

\* A body whose last start marker has no end marker after it, and the new
\* section appended to it.
AppendWithoutSpanWitness ==
  /\ lastReconcile.op = "replaceOrAppendSection"
  /\ includes(lastReconcile.existingBody, markersOf(lastReconcile.kind)[1])
  /\ includes(lastReconcile.existingBody, markersOf(lastReconcile.kind)[2])
  /\ spans(lastReconcile.existingBody, markersOf(lastReconcile.kind)) = <<>>
  /\ Len(lastReconcile.result)
       = Len(lastReconcile.existingBody) + 2 + Len(lastReconcile.newSection)

\* ------------------------------------------------------------------ C12
\* Run p of validate-rules has ended with nothing to post, having found a
\* Cerebrus comment with a path-validation span.
RemovalRun(p) ==
  /\ RulesRunEnded(p) /\ ~shouldPost(run[p])
  /\ run[p].existing.id # 0
  /\ spans(run[p].existing.body, PathMarkers) # <<>>

\* The body without its first path-validation span and the newlines directly
\* after it, trimmed.
WithoutPathSpan(b) ==
  LET m == regexExec(b, PATH_VALIDATION_SECTION_START,
                     PATH_VALIDATION_SECTION_END, TRUE, 1)
  IN trim(SubSeq(b, 1, m[1] - 1) \o SubSeq(b, m[2] + 1, Len(b)))

\* C12: when a rules run with nothing to post finds a Cerebrus comment with a
\* path-validation span, the updated body is the old body without that span
\* and the newlines directly after it, trimmed; it holds neither
\* path-validation marker; and the comment is updated exactly when that body
\* differs from the old one.
PathSectionRemoved ==
  \A p \in Procs :
    RemovalRun(p) =>
      /\ rulesBody(run[p]) = WithoutPathSpan(run[p].existing.body)
      /\ ~includes(rulesBody(run[p]), PATH_VALIDATION_SECTION_START)
      /\ ~includes(rulesBody(run[p]), PATH_VALIDATION_SECTION_END)
      /\ run[p].wrote = (rulesBody(run[p]) # run[p].existing.body)
      /\ CerebrusBody = rulesBody(run[p])
\* ------------------------------------------------------------------ C20
\* A file on account of which a PR needs a change note.
needsNote(file) ==
  /\ ~matchesSkipPattern(file)
  /\ ~isEditionsTiddler(file) \/ matchesRequiresChangeNote(file)
CheckedNeed == lastNotes.op = "done" /\ lastNotes.kind = "checkNeedsChangeNote"

\* C20: checkNeedsChangeNote(files) is true exactly when some file matches no
\* skip pattern and is either no editions tiddler or matches a
\* requires-change-note pattern; so it is false for the empty list and the
\* same for every order of the files.
NeedsNoteExactly ==
  CheckedNeed =>
    /\ lastNotes.result =
         (\E i \in 1..Len(lastNotes.files) : needsNote(lastNotes.files[i]))
    /\ lastNotes.files = <<>> => ~lastNotes.result
    /\ \A i, j \in 1..Len(lastNotes.files) :
         checkNeedsChangeNote([lastNotes.files EXCEPT ![i] = lastNotes.files[j],
                                                      ![j] = lastNotes.files[i]])
           = lastNotes.result
\* An editions tiddler that needs no note, then a core file: true.
NeedsNoteWitness ==
  /\ CheckedNeed
  /\ lastNotes.files = <<EditionTid, CoreJs>>
  /\ lastNotes.result

\* ------------------------------------------------------------------ C17
\* A value of the field fails one of the checks of its configuration.
failsCheck(fieldConfig, v) ==
  IF falsy(v) THEN fieldConfig.required
  ELSE \/ fieldConfig.pattern # "" /\ ~patternTest(fieldConfig.pattern, v)
       \/ fieldConfig.contains # "" /\ ~stringIncludes(v, fieldConfig.contains)
       \/ /\ fieldConfig.validValues # ""
          /\ \A i \in 1..Len(ReleasesInfo[fieldConfig.validValues]) :
               ReleasesInfo[fieldConfig.validValues][i] # v
\* The message of the first check the value fails: missing, then the others.
messageOf(fieldConfig, v) ==
  IF falsy(v) /\ fieldConfig.missingMessage # <<>> THEN fieldConfig.missingMessage
  ELSE fieldConfig.errorMessage
schemaOf(name) ==
  IF name = "changeNoteFields" THEN changeNoteFields ELSE impactNoteFields
ValidatedNote == lastNotes.op = "done" /\ lastNotes.kind = "validateNote"
\* The fields of the schema whose value in the validated note fails a check.
FailingFields ==
  SelectSeq(schemaOf(lastNotes.schema),
            LAMBDA c : failsCheck(c, lastNotes.fields[c.name]))
MissingFields ==
  SelectSeq(schemaOf(lastNotes.schema),
            LAMBDA c : falsy(lastNotes.fields[c.name]))

\* C17: the issues of a validated note are, in the order the schema declares
\* its fields, one issue for each field that fails a check and none for any
\* other: the missing message for a missing field, the error message
\* otherwise.  A missing field does not end the validation: every missing
\* field has its issue, and the issue of a missing release names `release`.
OneIssuePerFailingField ==
  ValidatedNote =>
    /\ Len(lastNotes.result) = Len(FailingFields)
    /\ \A k \in 1..Len(FailingFields) :
         LET c == FailingFields[k]
             message == messageOf(c, lastNotes.fields[c.name])
         IN /\ Head(lastNotes.result[k]) = Head(message)
            /\ includes(message, c.name) => includes(lastNotes.result[k], c.name)
    /\ Len(lastNotes.result) >= Len(MissingFields)
    /\ (lastNotes.schema = "changeNoteFields" /\ falsy(lastNotes.fields["release"]))
         => \E k \in 1..Len(lastNotes.result) :
              /\ Head(lastNotes.result[k]) = "Missing field: "
              /\ includes(lastNotes.result[k], "release")
\* A change note without release, description and contributors: three issues.
MissingReleaseWitness ==
  /\ ValidatedNote /\ lastNotes.schema = "changeNoteFields"
  /\ lastNotes.fields["tags"] = ChangeNoteTag
  /\ lastNotes.fields["title"] = GoodChangeTitle
  /\ lastNotes.fields["change-type"] = "bugfix"
  /\ lastNotes.fields["change-category"] = "internal"
  /\ lastNotes.fields["github-links"] = "link"
  /\ lastNotes.fields["release"] = undefined
  /\ lastNotes.fields["description"] = undefined
  /\ lastNotes.fields["github-contributors"] = undefined
  /\ Len(lastNotes.result) = 3
  /\ includes(lastNotes.result[2], "release")

\* ------------------------------------------------------------------ C18
ValidatedNotes ==
  /\ lastNotes.op = "done" /\ lastNotes.kind = "validateChangeNotes"
  /\ ~lastNotes.result.threw
\* a is b with some elements left out.
RECURSIVE IsSubsequence(_, _)
IsSubsequence(a, b) ==
  IF a = <<>> THEN TRUE
  ELSE IF b = <<>> THEN FALSE
  ELSE IF Head(a) = Head(b) THEN IsSubsequence(Tail(a), Tail(b))
  ELSE IsSubsequence(a, Tail(b))
ErrorFiles ==
  [k \in 1..Len(lastNotes.result.errors) |-> lastNotes.result.errors[k].file]

\* C18: in the result of validateChangeNotes, success is true exactly when
\* errors is empty, every entry of errors has at least one issue, and the
\* files of the entries are, in input order and at most once per occurrence,
\* files of the input that match the release-notes path pattern.
ValidationResultWellFormed ==
  ValidatedNotes =>
    /\ lastNotes.result.success = (lastNotes.result.errors = <<>>)
    /\ \A k \in 1..Len(lastNotes.result.errors) :
         Len(lastNotes.result.errors[k].issues) >= 1
    /\ IsSubsequence(ErrorFiles, SelectSeq(lastNotes.files, isReleaseNotesPath))
\* Two notes with issues: two entries, in the order of the input.
TwoEntriesWitness ==
  /\ ValidatedNotes
  /\ lastNotes.files = <<NoteTid("n2"), NoteTid("n1")>>
  /\ ~lastNotes.result.success
  /\ ErrorFiles = <<NoteTid("n2"), NoteTid("n1")>>

\* ------------------------------------------------------------------ C19
\* The issues of a parsed file by the tags string of its fields.
issuesByTags(fields) ==
  IF stringIncludes(tagsOf(fields), ChangeNoteTag)
  THEN validateChangeNote(fields, <<>>, ReleasesInfo)
  ELSE IF stringIncludes(tagsOf(fields), ImpactNoteTag)
  THEN validateImpactNote(fields, <<>>, ReleasesInfo)
  ELSE <<>>
\* The release-notes files of the input that could be parsed.
ParsedNotes ==
  SelectSeq(lastNotes.files,
            LAMBDA f : isReleaseNotesPath(f)
                         /\ ~parseTiddlerFile(f, lastNotes.repo).null)
\* Those of them with issues under the schema of their tags.
NotesWithIssues ==
  SelectSeq(ParsedNotes,
            LAMBDA f : issuesByTags(parseTiddlerFile(f, lastNotes.repo).fields) # <<>>)
ParsedErrors ==
  SelectSeq(lastNotes.result.errors,
            LAMBDA e : ~parseTiddlerFile(e.file, lastNotes.repo).null)

\* C19: a parsed release-notes file whose tags hold the ChangeNote tag is
\* validated against the ChangeNote schema only, also when they hold the
\* ImpactNote tag; otherwise one whose tags hold the ImpactNote tag against
\* the ImpactNote schema; any other has no entry in errors.
ClassifiedByTags ==
  ValidatedNotes =>
    /\ Len(ParsedErrors) = Len(NotesWithIssues)
    /\ \A k \in 1..Len(ParsedErrors) :
         /\ ParsedErrors[k].file = NotesWithIssues[k]
         /\ ParsedErrors[k].issues =
              issuesByTags(parseTiddlerFile(NotesWithIssues[k], lastNotes.repo).fields)
\* A note with both tags that passes as a change note, then an untagged
\* file: no entry.
BothTagsWitness ==
  /\ ValidatedNotes
  /\ lastNotes.files = <<NoteTid("n1"), NoteTid("n2")>>
  /\ lastNotes.repo.files[NoteTid("n1")].fields["tags"] = BothTags
  /\ ~lastNotes.repo.files[NoteTid("n2")].null
  /\ lastNotes.repo.files[NoteTid("n2")].fields["tags"] = "docs"
  /\ lastNotes.result.success

\* ------------------------------------------------------------------ C14
RunEnded == lastNotes.op = "done" /\ lastNotes.kind = "run"
\* The changed release-notes files of the run.
ReleaseNotesFiles == SelectSeq(lastNotes.files, isReleaseNotesTid)
\* Those tagged as a change note or an impact note.
TaggedNotes ==
  SelectSeq(ReleaseNotesFiles,
            LAMBDA f : LET parsed == parseTiddlerFile(f, lastNotes.repo) IN
                       /\ ~parsed.null
                       /\ \/ stringIncludes(tagsOf(parsed.fields), ChangeNoteTag)
                          \/ stringIncludes(tagsOf(parsed.fields), ImpactNoteTag))

\* C14: a changenotes run over changed files that need a change note
\* reports success only if at least one changed release-notes file is tagged
\* as a change note or an impact note and all of these pass validation.
SuccessOnlyWithValidNotes ==
  (RunEnded /\ checkNeedsChangeNote(lastNotes.files) /\ ~lastNotes.result.threw)
    => /\ TaggedNotes # <<>>
       /\ \A k \in 1..Len(TaggedNotes) :
            issuesByTags(parseTiddlerFile(TaggedNotes[k], lastNotes.repo).fields) = <<>>

\* ------------------------------------------------------------------ C15
\* The run validated a tagged note that has issues.
ContentIssues ==
  /\ RunEnded /\ lastNotes.repo.hasReleasesInfo
  /\ \E k \in 1..Len(TaggedNotes) :
       issuesByTags(parseTiddlerFile(TaggedNotes[k], lastNotes.repo).fields) # <<>>

\* C15 as stated: the run does not throw because of issues in the content
\* of the notes.
ContentIssuesNeverThrown == ContentIssues => ~lastNotes.result.threw

\* C15: issues in the content of the notes never make validateChangeNotes
\* throw; the run reports them in the change note section of the comment,
\* which it writes unless it is a dry run, and then throws so that the job
\* fails.
ContentIssuesReportedThenThrown ==
  /\ (lastNotes.op = "done" /\ lastNotes.kind = "validateChangeNotes"
        /\ lastNotes.repo.hasReleasesInfo) => ~lastNotes.result.threw
  /\ ContentIssues =>
       LET validation == validateChangeNotes(ReleaseNotesFiles, lastNotes.repo) IN
       /\ ~lastNotes.result.fatal /\ ~validation.threw /\ ~validation.success
       /\ lastNotes.result.commentBody = generateValidationFailedComment(validation.errors)
       /\ lastNotes.result.wrote = ~lastNotes.dryRun
       /\ lastNotes.result.wrote =>
            \E i \in 1..Len(comments) :
              /\ includes(comments[i].body, CEREBRUS_IDENTIFIER)
              /\ includes(comments[i].body, "changenote-validation-failed")
              /\ \A k \in 1..Len(validation.errors) :
                   \A n \in 1..Len(validation.errors[k].issues) :
                     includes(comments[i].body, Head(validation.errors[k].issues[n]))
       /\ ~lastNotes.result.wrote => comments = lastNotes.result.before
       /\ lastNotes.result.threw
\* A core file and a change note without release: the comment is created
\* with the issue, and the run throws.
ReportedThenThrownWitness ==
  /\ ContentIssues
  /\ lastNotes.files = <<CoreJs, NoteTid("n1")>>
  /\ lastNotes.repo.files[NoteTid("n1")].fields["release"] = undefined
  /\ lastNotes.result.before = <<>> /\ Len(comments) = 1
  /\ includes(comments[1].body, "release")
  /\ lastNotes.result.threw

\* ------------------------------------------------------------------ C16
\* C16: a changenotes run that has release-notes files to validate in a
\* working directory without ReleasesInfo.multids throws, and the comments
\* of the PR are after the run what they were before.
MissingReleasesInfoFatal ==
  (RunEnded /\ ~lastNotes.repo.hasReleasesInfo /\ ReleaseNotesFiles # <<>>)
    => /\ lastNotes.result.threw /\ lastNotes.result.fatal
       /\ ~lastNotes.result.wrote
       /\ comments = lastNotes.result.before
\* A run that is no dry run, over a valid note, on a PR whose comment has a
\* change note section.
MissingReleasesInfoWitness ==
  /\ RunEnded /\ ~lastNotes.repo.hasReleasesInfo /\ ~lastNotes.dryRun
  /\ lastNotes.files = <<CoreJs, NoteTid("n1")>>
  /\ lastNotes.repo.files[NoteTid("n1")] = Parsed(GoodChangeNote)
  /\ Len(comments) = 1
  /\ includes(comments[1].body, CHANGENOTE_SECTION_START)
  /\ lastNotes.result.threw

\* ------------------------------------------------------------------ C21
Evaluated == lastEval.baseRef # "none"
\* The rules whose condition the evaluation reached.
Reached(i) == i \in lastEval.result.evaluated
Matched(i) == \E k \in 1..Len(lastEval.result.matchedIds) :
                lastEval.result.matchedIds[k] = i

\* C21: on a base branch other than tiddlywiki-com the condition of rule 1
\* is false, and on a base branch other than master the condition of rule 2
\* is false, whatever the changed files, the empty list included; so neither
\* rule is among the matched rules of an evaluation on such a branch.
BranchRulesOnlyOnTheirBranch ==
  Evaluated =>
    /\ lastEval.baseRef # "tiddlywiki-com" =>
         /\ ~condition(1, lastEval.baseRef, lastEval.changedFiles)
         /\ ~Matched(1)
    /\ lastEval.baseRef # "master" =>
         /\ ~condition(2, lastEval.baseRef, lastEval.changedFiles)
         /\ ~Matched(2)
\* A third branch, a file outside editions/: rules 1 and 2 were reached and
\* did not match.
ThirdBranchWitness ==
  /\ Evaluated /\ lastEval.baseRef = "feature"
  /\ lastEval.changedFiles = <<"editions/file1.txt", "other-folder/file2.txt">>
  /\ Reached(1) /\ Reached(2) /\ ~Matched(1) /\ ~Matched(2)

SoloLicenseFileClean ==
  (/\ Evaluated /\ lastEval.baseRef = "tiddlywiki-com"
   /\ Len(lastEval.changedFiles) = 1
   /\ lastEval.changedFiles[1] \in LicensesFiles)
    => /\ \A i \in RuleIds : ~condition(i, lastEval.baseRef, lastEval.changedFiles)
       /\ lastEval.result.matchedIds = <<>>
       /\ lastEval.result.messages = <<>>
       /\ ~shouldPost([NoRun EXCEPT !.matchedIds = lastEval.result.matchedIds,
                                    !.abort = lastEval.result.abort])
\* Such an evaluation, with every rule reached.
SoloLicenseFileWitness ==
  /\ Evaluated /\ lastEval.baseRef = "tiddlywiki-com"
  /\ lastEval.changedFiles = <<"licenses/cla-individual.md">>
  /\ lastEval.result.evaluated = RuleIds
  /\ lastEval.result.messages = <<>>

\* ------------------------------------------------------------------ C24
\* C24: the condition of rule 4 is true exactly when some changed file is
\* equal to one of the protected file names, on every base branch; an
\* evaluation that reaches rule 4 matches it exactly then.
ProtectedFilesExactly ==
  Evaluated =>
    LET expected ==
          \E i \in 1..Len(lastEval.changedFiles) :
            lastEval.changedFiles[i]
              \in {"/readme.md", "/bin/readme.md", "contributing.md", "license"}
    IN /\ condition(4, lastEval.baseRef, lastEval.changedFiles) = expected
       /\ Reached(4) => (Matched(4) = expected)
\* /readme.md on a third branch: rule 4 matches.
ProtectedFileWitness ==
  /\ Evaluated /\ lastEval.baseRef = "feature"
  /\ lastEval.changedFiles = <<"editions/file1.txt", "/readme.md">>
  /\ Reached(4) /\ Matched(4)

\* ------------------------------------------------------------------ C25
\* Process p runs a whole handler with dry-run enabled in this step.
DryRunOf(p) == pc[p] = "idle" /\ pc'[p] = "done" /\ run'[p].dryRun

\* C25: a run with dry-run enabled, of any mode, creates, updates and deletes
\* no comment and dispatches no event: the comments of the PR are after the
\* run what they were before.
DryRunChangesNothing ==
  [][\A p \in Procs :
       DryRunOf(p) => /\ comments' = comments /\ nextId' = nextId
                      /\ ~run'[p].dispatched /\ ~run'[p].wrote /\ ~run'[p].deleted]_vars
\* A dry run of the rules with a matched rule has ended on a PR that has a
\* Cerebrus comment without path section.
DryRunWitness ==
  /\ pc[1] = "done" /\ run[1].dryRun /\ run[1].mode = "rules"
  /\ run[1].matchedIds # <<>> /\ ~run[1].abort
  /\ Len(comments) = 1
  /\ ~includes(comments[1].body, PATH_VALIDATION_SECTION_START)

\* ------------------------------------------------------------------ C26
\* Run p of the change notes, not a dry run, has ended.
ChangeNotesRunEnded(p) ==
  pc[p] = "done" /\ run[p].mode = "changenotes" /\ ~run[p].dryRun

\* C26: a changenotes run that is no dry run has written the comment when it
\* ends, also when it ends by throwing because the validation did not pass,
\* and the comment then holds exactly one change note section, the one with
\* the report of this run.
ReportWrittenBeforeFailure ==
  \A p \in Procs :
    ChangeNotesRunEnded(p) =>
      /\ run[p].wrote
      /\ LET c == getExistingComment(comments, CEREBRUS_IDENTIFIER) IN
         /\ c.id # 0
         /\ spans(c.body, ChangeNoteMarkers) = <<run[p].section>>

\* ------------------------------------------------------------------ C27
\* (a) of the claim: no changed release-notes file, and a change note is needed.
NoteMissing ==
  ReleaseNotesFiles = <<>> /\ checkNeedsChangeNote(lastNotes.files)
\* The validation of the changed release-notes files reported issues.
IssuesReported ==
  /\ ReleaseNotesFiles # <<>>
  /\ LET validation == validateChangeNotes(ReleaseNotesFiles, lastNotes.repo) IN
     ~validation.threw /\ ~validation.success
\* (b) of the claim: issues, and a tagged note or a change note needed.
IssuesCount ==
  IssuesReported /\ (TaggedNotes # <<>> \/ checkNeedsChangeNote(lastNotes.files))
\* The validation was called and threw for want of ReleasesInfo.multids.
ValidationAborted ==
  ReleaseNotesFiles # <<>> /\ ~lastNotes.repo.hasReleasesInfo

\* C27 as stated: a changenotes run fails exactly when (a) no release-notes
\* file is among the changed files and a change note is needed, or (b) the
\* validation reported issues and a changed release-notes file is tagged or a
\* change note is needed; in every other case the run passes.
FailedExactlyOnVerdict ==
  RunEnded => (lastNotes.result.threw <=> (NoteMissing \/ IssuesCount))

\* C27: a changenotes run whose validation is not aborted by a missing
\* ReleasesInfo.multids fails exactly when (a) or (b) holds; a run whose
\* validation is aborted fails as well.
FailedOnVerdictOrAbort ==
  RunEnded =>
    /\ lastNotes.result.fatal <=> ValidationAborted
    /\ lastNotes.result.threw <=> (ValidationAborted \/ NoteMissing \/ IssuesCount)
    /\ ~lastNotes.result.fatal =>
         (lastNotes.result.validationPassed <=> ~(NoteMissing \/ IssuesCount))

\* A run over an unreadable or untagged release-notes file with issues, on a
\* PR that needs no change note, has passed.
IssuesOnDocOnlyPassWitness ==
  /\ RunEnded /\ IssuesReported /\ TaggedNotes = <<>>
  /\ ~checkNeedsChangeNote(lastNotes.files)
  /\ ~lastNotes.result.threw /\ lastNotes.result.validationPassed

\* ------------------------------------------------------------------ C28
\* C28: after replaceOrAppendSection has replaced an existing span, the
\* first span of the section found in the result is the new section that was
\* passed in, whatever its content, replacement patterns included.
ReplacedSpanIsNewSection ==
  ReplacedInBody =>
    /\ spans(lastReconcile.result, markersOf(lastReconcile.kind)) # <<>>
    /\ spans(lastReconcile.result, markersOf(lastReconcile.kind))[1]
         = lastReconcile.newSection

\* ------------------------------------------------------------------ C29
\* commentSize has been applied to its inputs.
SizeRunEnded == lastSize.op = "done"
\* The text of an input is a number: a decimal integer, signed or not, with
\* or without white space around it.
IsNumber(input) ==
  LET s == stripWhiteSpace(input) IN
  \/ allDigits(s)
  \/ s # <<>> /\ Head(s) \in {"-", "+"} /\ allDigits(Tail(s))
\* The run threw before it read the comment and before it wrote one.
ThrewBeforeComment ==
  /\ lastSize.result.threw /\ ~lastSize.result.read /\ ~lastSize.result.wrote
  /\ comments = lastSize.result.before

\* C29: a size:comment run under GitHub Actions whose pr_size input is not a
\* number or is negative, or whose base_size input is not a number or is not
\* greater than 0, throws before the existing comment is read and before any
\* comment is created or updated.
InvalidSizeInputsThrowFirst ==
  (SizeRunEnded
     /\ \/ ~IsNumber(lastSize.prSizeInput) \/ Number(lastSize.prSizeInput).value < 0
        \/ ~IsNumber(lastSize.baseSizeInput)
        \/ Number(lastSize.baseSizeInput).value <= 0)
    => ThrewBeforeComment

\* What the code has: the inputs that Number turns into NaN or into a value
\* out of range make the run throw before the comment is read or written.
RejectedSizeInputsThrowFirst ==
  (SizeRunEnded
     /\ \/ Number(lastSize.prSizeInput).nan \/ Number(lastSize.prSizeInput).value < 0
        \/ Number(lastSize.baseSizeInput).nan
        \/ Number(lastSize.baseSizeInput).value <= 0)
    => ThrewBeforeComment

\* ------------------------------------------------------------------ C30
\* commentSize has generated the report of two sizes.
SizeReported == SizeRunEnded /\ ~lastSize.result.threw
SizeDiff == lastSize.result.prSize - lastSize.result.baseSize

\* C30: with diff = prSize - baseSize, the report carries the badge and
\* warning of a significant increase exactly when diff > 20480, those of a
\* significant decrease exactly when diff < -20480, and neither in between;
\* its direction is Increase for diff > 0, Decrease for diff < 0 and No
\* change for diff = 0.
BadgeAndDirectionByDiff ==
  SizeReported =>
    /\ includes(lastSize.result.message, "Significant Increase") <=> SizeDiff > 20480
    /\ includes(lastSize.result.message, "Significant Decrease") <=> SizeDiff < -20480
    /\ (SizeDiff >= -20480 /\ SizeDiff <= 20480) => Len(lastSize.result.message) = 2
    /\ lastSize.result.message[1] =
         (IF SizeDiff > 0 THEN "Increase"
          ELSE IF SizeDiff < 0 THEN "Decrease" ELSE "No change")

\* A report of an increase of exactly 20480 bytes, without badge, has been
\* written to the comment.
LimitIncreaseWitness ==
  /\ SizeReported /\ SizeDiff = 20480 /\ lastSize.result.wrote
  /\ lastSize.result.message = <<"Increase", NL>>
  /\ Contains(CerebrusBody, buildSizeSection(<<"Increase", NL>>))


====
